---- MODULE Spec2Model ----
(***************************************************************************)
(* Model of the AL MCP server's request handling: the lazy, single-flight  *)
(* initialization gate (ALMCPServer.ensureInitialized and                  *)
(* performInitialization) and the CallTool handler's dispatch onto the     *)
(* operations of the tools facade; and of the symbol parser                 *)
(* (StreamingSymbolParser), which turns the raw metadata document of one   *)
(* package into the list of its AL objects.                                *)
(*                                                                         *)
(* A JavaScript async function runs without interruption from one await   *)
(* to the next, so every action below is one such run-to-await segment.    *)
(* An optional value (a possibly missing argument, a possibly null field)  *)
(* is a sequence of length 0 or 1.                                         *)
(***************************************************************************)
EXTENDS Integers, Sequences, FiniteSets, TLC

VARIABLES
    isInitialized,          \* ALMCPServer.isInitialized
    initializationPromise,  \* ALMCPServer.initializationPromise: 0 (null) or the index of a run in inits
    alCommandSet,           \* whether setupALCli called alCli.setALCommand
    inits,                  \* the performInitialization runs started so far, each [state, outcome]
    req,                    \* req[r]: the request (name, arguments) of tool call r, None before it arrives
    pc,                     \* pc[r]: where the handler of tool call r stands
    awaiting,               \* awaiting[r]: the run whose promise call r awaits (or awaited) in ensureInitialized, 0 if none
    call,                   \* call[r]: the operation of the tools facade invoked for call r, None if none
    result,                 \* result[r]: what the handler of call r settled with
    input,                  \* the arguments of parseSymbolPackage and the content of SymbolReference.json
    stream,                 \* the chunks the stream has yet to deliver
    jsonData,               \* jsonData of parseSymbolStream: the text received so far
    ppc,                    \* where parseSymbolPackage stands
    streamResult,           \* how the promise of parseSymbolStream settled
    packageResult,          \* how the promise of parseSymbolPackage settled
    progress,               \* the phases passed to the progress callback, in order
    invocation,             \* the command line, the terminal and the files the installer script was started with
    files,                  \* settings.json of VS Code and .vscode/mcp.json of the workspace
    ipc,                    \* where the installer script stands
    did,                    \* the branch the entry point took
    runs,                   \* the number of finished runs of install()
    log                     \* the outcomes the installer printed in the current run

serverVars == <<isInitialized, initializationPromise, alCommandSet, inits, req, pc, awaiting, call, result>>

parserVars == <<input, stream, jsonData, ppc, streamResult, packageResult, progress>>

installerVars == <<invocation, files, ipc, did, runs, log>>

vars == <<serverVars, parserVars, installerVars>>

\* a promise of the parser that has not settled
Pending == [status |-> "pending", objects |-> << >>, error |-> << >>]

\* no package is being parsed
ParserIdle ==
    /\ input = << >>
    /\ stream = << >>
    /\ jsonData = << >>
    /\ ppc = "idle"
    /\ streamResult = Pending
    /\ packageResult = Pending
    /\ progress = << >>

\* the installer script is not running
InstallerIdle ==
    /\ invocation = << >>
    /\ files = << >>
    /\ ipc = "idle"
    /\ did = "nothing"
    /\ runs = 0
    /\ log = {}

----------------------------------------------------------------------------
(* Bounds *)

\* number of tool calls that may be in flight together
NumRequests == 2

Requests == 1..NumRequests

\* number of nodes of a tree of namespaces, of controls or of data items
MaxNodes == 3

\* number of entries of a collection
MaxEntries == 2

\* number of NUL characters after the text of SymbolReference.json
MaxNuls == 1

\* number of arguments on the command line of the installer script
MaxArgs == 2

\* number of times the installer is run on the same files
MaxRuns == 2

----------------------------------------------------------------------------
(* Optional values and JavaScript truthiness *)

None == <<>>

Some(v) == <<v>>

Opt(S) == {None} \cup {Some(v) : v \in S}

\* args?.field : undefined when args is undefined or the field is missing
Field(args, f) == IF args = None THEN None ELSE args[1][f]

\* truthiness of an optional string: undefined and "" are falsy
TruthyStr(o) == o # None /\ o[1] # ""

\* truthiness of an optional boolean
TruthyBool(o) == o # None /\ o[1] = TRUE

----------------------------------------------------------------------------
(* The tool list and the requests a client can send *)

\* the names in the ListTools response, in order
ListTools ==
    << "al_search_objects", "al_get_object_definition", "al_find_references",
       "al_search_object_members", "al_get_object_summary", "al_packages" >>

ListedNames == {ListTools[i] : i \in 1..Len(ListTools)}

\* names a client may put in a CallTool request: the listed ones and two that are not
\* (al_auto_discover and al_load_packages are the names the startup message mentions)
RequestNames == ListedNames \cup {"al_auto_discover", "al_load_packages"}

SearchArgs ==
    [pattern : Opt({"Cust*"}), objectType : Opt({"Table"}), packageName : Opt({"App"}),
     domain : Opt({"Sales"}), limit : Opt({5}), offset : Opt({10})]

DefinitionArgs == [objectName : Opt({"Customer"}), objectType : Opt({"Table"})]

ReferencesArgs == [targetName : Opt({"Customer"})]

MembersArgs == [objectName : Opt({"Customer"}), memberType : Opt({"fields"})]

SummaryArgs == [objectName : Opt({"Customer"}), objectType : Opt({"Table"})]

PackagesArgs ==
    [action : Opt({"load", "list", "stats", "reload"}), path : Opt({"", "/ws"}),
     autoDiscover : Opt(BOOLEAN), forceReload : Opt(BOOLEAN)]

ArgsOf(name) ==
    CASE name = "al_search_objects" -> SearchArgs
      [] name = "al_get_object_definition" -> DefinitionArgs
      [] name = "al_find_references" -> ReferencesArgs
      [] name = "al_search_object_members" -> MembersArgs
      [] name = "al_get_object_summary" -> SummaryArgs
      [] name = "al_packages" -> PackagesArgs
      [] OTHER -> [path : Opt({"/ws"})]

\* every request of the model: any name, with the arguments missing or present
AllRequests ==
    UNION { {[name |-> n, args |-> a] : a \in Opt(ArgsOf(n))} : n \in RequestNames }

\* the requests used when several calls are in flight together: one that invokes
\* an operation, one whose switch throws and one that is answered directly
FewRequests ==
    { q \in AllRequests :
        \/ q.args = None /\ q.name \in {"al_search_objects", "al_get_object_summary"}
        \/ /\ q.name = "al_packages" /\ q.args # None
           /\ q.args[1].action = Some("load")
           /\ q.args[1].autoDiscover = None /\ q.args[1].forceReload = None
           /\ q.args[1].path = None }

\* the request `al_packages {action: "list"}`
ListRequests ==
    { q \in AllRequests :
        /\ q.name = "al_packages" /\ q.args # None
        /\ q.args[1] = [action |-> Some("list"), path |-> None, autoDiscover |-> None, forceReload |-> None] }

----------------------------------------------------------------------------
(* The CallTool handler's switch, up to its first await or its return *)

\* an invocation of an operation of the tools facade
Invoke(op, params) == [t |-> "call", op |-> op, params |-> params]

\* a response returned directly
Return(text) == [t |-> "return", text |-> text]

\* an exception raised inside the try block
Throw(msg) == [t |-> "throw", text |-> msg]

\* case 'al_search_objects'
SearchObjectsCase(args) ==
    IF args # None /\ TruthyStr(args[1].domain)
    THEN Invoke("searchByDomain",
                [domain |-> args[1].domain[1],
                 objectTypes |-> IF TruthyStr(args[1].objectType)
                                 THEN Some(<<args[1].objectType[1]>>) ELSE None])
    ELSE Invoke("searchObjects", args)

\* case 'al_get_object_summary': reads args.objectName of a possibly undefined args
ObjectSummaryCase(args) ==
    IF args = None
    THEN Throw("TypeError")
    ELSE Invoke("getObjectSummary",
                [objectName |-> args[1].objectName, objectType |-> args[1].objectType])

\* case 'al_packages' without the check of the path before the load
PackagesCaseNoPathCheck(args) ==
    LET action == Field(args, "action")
        path == Field(args, "path")
        autoDiscover == Field(args, "autoDiscover") # Some(FALSE)
        forceReload == TruthyBool(Field(args, "forceReload"))
    IN  CASE action = Some("load") ->
               IF autoDiscover
               THEN Invoke("autoDiscoverPackages", [rootPath |-> path])
               ELSE Invoke("loadPackages", [packagesPath |-> path, forceReload |-> forceReload])
          [] action = Some("list") -> Invoke("listPackages", None)
          [] action = Some("stats") -> Invoke("getDatabaseStats", None)
          [] OTHER -> Throw("Unknown action")

\* case 'al_packages'
PackagesCase(args) ==
    LET action == Field(args, "action")
        path == Field(args, "path")
        autoDiscover == Field(args, "autoDiscover") # Some(FALSE)
        forceReload == TruthyBool(Field(args, "forceReload"))
    IN  CASE action = Some("load") ->
               IF ~TruthyStr(path)
               THEN Return("path parameter required for load action")
               ELSE IF autoDiscover
                    THEN Invoke("autoDiscoverPackages", [rootPath |-> path[1]])
                    ELSE Invoke("loadPackages", [packagesPath |-> path[1], forceReload |-> forceReload])
          [] action = Some("list") -> Invoke("listPackages", None)
          [] action = Some("stats") -> Invoke("getDatabaseStats", None)
          [] OTHER -> Throw("Unknown action")

\* switch (name) with the case of al_get_object_summary left out
HandlerSwitchNoSummary(name, args) ==
    CASE name = "al_search_objects" -> SearchObjectsCase(args)
      [] name = "al_get_object_definition" -> Invoke("getObjectDefinition", args)
      [] name = "al_find_references" -> Invoke("findReferences", args)
      [] name = "al_search_object_members" -> Invoke("searchObjectMembers", args)
      [] name = "al_packages" -> PackagesCase(args)
      [] OTHER -> Throw("Unknown tool")

\* switch (name)
HandlerSwitch(name, args) ==
    CASE name = "al_search_objects" -> SearchObjectsCase(args)
      [] name = "al_get_object_definition" -> Invoke("getObjectDefinition", args)
      [] name = "al_find_references" -> Invoke("findReferences", args)
      [] name = "al_search_object_members" -> Invoke("searchObjectMembers", args)
      [] name = "al_get_object_summary" -> ObjectSummaryCase(args)
      [] name = "al_packages" -> PackagesCase(args)
      [] OTHER -> Throw("Unknown tool")

\* a value the handler returns: one text item, and isError when set
Response(text, isError) ==
    [status |-> "returned", content |-> << [type |-> "text", text |-> text] >>, isError |-> isError]

\* the handler's promise rejecting with an error instead of returning a value
Rejected(msg) == [status |-> "rejected", content |-> << >>, isError |-> FALSE]

\* a handler without its catch block: the error leaves the handler
HandlerRethrows(msg) == Rejected(msg)

\* the catch block of the handler: the error's message as text, isError set
HandlerCatch(msg) == Response(msg, TRUE)

\* the handler has not settled yet
NoResult == [status |-> "none", content |-> << >>, isError |-> FALSE]

----------------------------------------------------------------------------
(* Initialization *)

\* how setupALCli can end: the installer found a path, succeeded without one,
\* reported failure, or an exception escaped
SetupOutcomes == {"found", "default", "unavailable", "threw"}

\* ensureInitialized without the check of a run in progress
EnsureInitializedNoWait(initialized, promise) ==
    IF initialized THEN "return" ELSE "start"

\* ensureInitialized returns at once when a run is in progress
EnsureInitializedSkipsWait(initialized, promise) ==
    IF initialized \/ promise # 0 THEN "return" ELSE "start"

\* ensureInitialized up to its first await
EnsureInitializedBranch(initialized, promise) ==
    IF initialized THEN "return"
    ELSE IF promise # 0 THEN "wait"
    ELSE "start"

\* a catch block that leaves isInitialized unset, so that the next call tries again
PerformInitializationRetries(outcome) == outcome # "threw"

\* the value performInitialization leaves in isInitialized (try and catch blocks)
PerformInitializationFlag(outcome) == TRUE

\* a catch block that rethrows the exception of setupALCli
PerformInitializationRethrows(outcome) == IF outcome = "threw" THEN "rejected" ELSE "fulfilled"

\* how the promise of performInitialization settles: the catch block swallows
\* the exception of setupALCli, so the promise is fulfilled in every case
PerformInitializationSettles(outcome) == "fulfilled"

\* the message of an error that escapes ensureInitialized into the handler's try block
InitFailedMessage == "initialization failed"

\* the server after construction, before any request
ServerIdle ==
    /\ isInitialized = FALSE
    /\ initializationPromise = 0
    /\ alCommandSet = FALSE
    /\ inits = << >>
    /\ req = [r \in Requests |-> None]
    /\ pc = [r \in Requests |-> "new"]
    /\ awaiting = [r \in Requests |-> 0]
    /\ call = [r \in Requests |-> None]
    /\ result = [r \in Requests |-> NoResult]

Init == ServerIdle /\ ParserIdle /\ InstallerIdle

\* A CallTool request arrives: the handler runs to `await this.ensureInitialized()`,
\* and ensureInitialized runs to its own first await (or returns).
Receive(r, q) ==
    /\ pc[r] = "new"
    /\ req' = [req EXCEPT ![r] = Some(q)]
    /\ LET branch == EnsureInitializedBranch(isInitialized, initializationPromise)
       IN  CASE branch = "return" ->
                  /\ pc' = [pc EXCEPT ![r] = "initialized"]
                  /\ UNCHANGED <<initializationPromise, inits, awaiting>>
             [] branch = "wait" ->
                  /\ pc' = [pc EXCEPT ![r] = "awaitInit"]
                  /\ awaiting' = [awaiting EXCEPT ![r] = initializationPromise]
                  /\ UNCHANGED <<initializationPromise, inits>>
             [] branch = "start" ->
                  \* performInitialization runs to `await this.setupALCli()`
                  /\ inits' = Append(inits, [state |-> "pending", outcome |-> "none"])
                  /\ initializationPromise' = Len(inits) + 1
                  /\ awaiting' = [awaiting EXCEPT ![r] = Len(inits) + 1]
                  /\ pc' = [pc EXCEPT ![r] = "awaitInit"]
    /\ UNCHANGED <<isInitialized, alCommandSet, call, result>>
    /\ UNCHANGED <<parserVars, installerVars>>

\* setupALCli of run i settles and performInitialization runs to its end
SetupSettles(i, outcome) ==
    /\ i \in 1..Len(inits)
    /\ inits[i].state = "pending"
    /\ alCommandSet' = (alCommandSet \/ outcome = "found")
    /\ isInitialized' = PerformInitializationFlag(outcome)
    /\ initializationPromise' = 0
    /\ inits' = [inits EXCEPT ![i] = [state |-> PerformInitializationSettles(outcome),
                                      outcome |-> outcome]]
    /\ UNCHANGED <<req, pc, awaiting, call, result>>
    /\ UNCHANGED <<parserVars, installerVars>>

\* the promise call r awaits in ensureInitialized has settled: ensureInitialized
\* ends, and so does the handler's await (inside its try block)
InitAwaited(r) ==
    /\ pc[r] = "awaitInit"
    /\ inits[awaiting[r]].state # "pending"
    /\ IF inits[awaiting[r]].state = "fulfilled"
       THEN /\ pc' = [pc EXCEPT ![r] = "initialized"]
            /\ UNCHANGED result
       ELSE /\ pc' = [pc EXCEPT ![r] = "done"]
            /\ result' = [result EXCEPT ![r] = HandlerCatch(InitFailedMessage)]
    /\ UNCHANGED <<isInitialized, initializationPromise, alCommandSet, inits, req, awaiting, call>>
    /\ UNCHANGED <<parserVars, installerVars>>

\* the handler of call r runs its switch, to the await of a facade operation or to its end
Dispatch(r) ==
    /\ pc[r] = "initialized"
    /\ LET step == HandlerSwitch(req[r][1].name, req[r][1].args)
       IN  CASE step.t = "call" ->
                  /\ call' = [call EXCEPT ![r] = Some([op |-> step.op, params |-> step.params])]
                  /\ pc' = [pc EXCEPT ![r] = "awaitTool"]
                  /\ UNCHANGED result
             [] step.t = "return" ->
                  /\ result' = [result EXCEPT ![r] = Response(step.text, FALSE)]
                  /\ pc' = [pc EXCEPT ![r] = "done"]
                  /\ UNCHANGED call
             [] step.t = "throw" ->
                  /\ result' = [result EXCEPT ![r] = HandlerCatch(step.text)]
                  /\ pc' = [pc EXCEPT ![r] = "done"]
                  /\ UNCHANGED call
    /\ UNCHANGED <<isInitialized, initializationPromise, alCommandSet, inits, req, awaiting>>
    /\ UNCHANGED <<parserVars, installerVars>>

\* the facade operation awaited by call r settles: its value is returned as
\* JSON text, its exception goes to the catch block
ToolSettles(r, ok) ==
    /\ pc[r] = "awaitTool"
    /\ result' = [result EXCEPT ![r] =
                    IF ok THEN Response("result", FALSE) ELSE HandlerCatch("operation failed")]
    /\ pc' = [pc EXCEPT ![r] = "done"]
    /\ UNCHANGED <<isInitialized, initializationPromise, alCommandSet, inits, req, awaiting, call>>
    /\ UNCHANGED <<parserVars, installerVars>>

Next ==
    \/ \E r \in Requests : \E q \in FewRequests : Receive(r, q)
    \/ \E i \in 1..Len(inits) : \E o \in SetupOutcomes : SetupSettles(i, o)
    \/ \E r \in Requests : InitAwaited(r)
    \/ \E r \in Requests : Dispatch(r)
    \/ \E r \in Requests : \E ok \in BOOLEAN : ToolSettles(r, ok)

Spec == Init /\ [][Next]_vars

\* setupALCli settles in the end, and a continuation that is ready to run is run
Fairness ==
    /\ WF_vars(\E i \in 1..Len(inits) : \E o \in SetupOutcomes : SetupSettles(i, o))
    /\ \A r \in Requests : WF_vars(InitAwaited(r))
    /\ \A r \in Requests : WF_vars(Dispatch(r))
    /\ \A r \in Requests : WF_vars(\E ok \in BOOLEAN : ToolSettles(r, ok))

FairSpec == Spec /\ Fairness

\* The handler on every request: call 1 carries any request of AllRequests, the
\* other calls are `al_packages list` requests that may come before, with or after it.
HandlerNext ==
    \/ \E r \in Requests : \E q \in (IF r = 1 THEN AllRequests ELSE ListRequests) : Receive(r, q)
    \/ \E i \in 1..Len(inits) : \E o \in SetupOutcomes : SetupSettles(i, o)
    \/ \E r \in Requests : InitAwaited(r)
    \/ \E r \in Requests : Dispatch(r)
    \/ \E r \in Requests : \E ok \in BOOLEAN : ToolSettles(r, ok)

HandlerSpec == Init /\ [][HandlerNext]_vars

----------------------------------------------------------------------------
(* Raw metadata: JSON values as the parser sees them *)

\* a property that is absent (JavaScript undefined)
JUndef == [k |-> "undef"]

JNull == [k |-> "null"]

JNum(n) == [k |-> "num", n |-> n]

JStr(s) == [k |-> "str", s |-> s]

JBool(b) == [k |-> "bool", b |-> b]

JList(items) == [k |-> "list", items |-> items]

JObj(fields) == [k |-> "obj", fields |-> fields]

\* reading a property of null or undefined raises a TypeError
Nullish(v) == v.k \in {"undef", "null"}

\* v.f for a v that is not nullish: undefined unless v is an object with that property
Get(v, f) == IF v.k = "obj" /\ f \in DOMAIN v.fields THEN v.fields[f] ELSE JUndef

\* v?.f
GetOpt(v, f) == IF Nullish(v) THEN JUndef ELSE Get(v, f)

\* JavaScript truthiness
Truthy(v) ==
    CASE v.k \in {"undef", "null"} -> FALSE
      [] v.k = "num" -> v.n # 0
      [] v.k = "str" -> v.s # ""
      [] v.k = "bool" -> v.b
      [] OTHER -> TRUE

\* Array.isArray(v)
IsArray(v) == v.k = "list"

\* a || b
Or(a, b) == IF Truthy(a) THEN a ELSE b

\* the record without fields
NoFields == [f \in {} |-> f]

\* list.map(F) raises when list is not an array or F raises on an element
MapThrows(list, FThrows(_)) ==
    \/ ~IsArray(list)
    \/ \E i \in 1..Len(list.items) : FThrows(list.items[i])

\* list.map(F) of an array
Map(list, F(_)) == [i \in 1..Len(list.items) |-> F(list.items[i])]

----------------------------------------------------------------------------
(* The parser's functions. A function that can raise an exception is two   *)
(* operators: FThrows(data), whether it raises, and F(data), its value     *)
(* when it does not.                                                       *)

\* parseProperties raises on a null element of the list (prop.Name)
ParsePropertiesThrows(properties) ==
    IsArray(properties) /\ \E i \in 1..Len(properties.items) : Nullish(properties.items[i])

ParseProperty(prop) == [Name |-> Or(Get(prop, "Name"), JStr("")), Value |-> Get(prop, "Value")]

\* parseProperties keeps the first property only
ParsePropertiesFirstOnly(properties) ==
    IF ~IsArray(properties) \/ Len(properties.items) = 0 THEN << >>
    ELSE << ParseProperty(properties.items[1]) >>

\* parseProperties
ParseProperties(properties) ==
    IF ~IsArray(properties) THEN << >> ELSE Map(properties, ParseProperty)

\* a mapped element raises: it is null, or its Properties list has a null element
ElementThrows(element) ==
    Nullish(element) \/ ParsePropertiesThrows(Get(element, "Properties"))

\* findProperty returns the last property of the name
FindPropertyLast(properties, propertyName) ==
    IF ~IsArray(properties) THEN None
    ELSE LET hits == {i \in 1..Len(properties.items) :
                          Get(properties.items[i], "Name") = JStr(propertyName)}
         IN  IF hits = {} THEN None
             ELSE Some(properties.items[CHOOSE i \in hits : \A j \in hits : i >= j])

\* findProperty, None when it returns undefined
FindProperty(properties, propertyName) ==
    IF ~IsArray(properties) THEN None
    ELSE LET hits == {i \in 1..Len(properties.items) :
                          Get(properties.items[i], "Name") = JStr(propertyName)}
         IN  IF hits = {} THEN None
             ELSE Some(properties.items[CHOOSE i \in hits : \A j \in hits : i <= j])

\* parseField
ParseField(data) ==
    [Id |-> Or(Get(data, "Id"), JNum(0)),
     Name |-> Or(Get(data, "Name"), JStr("")),
     TypeDefinition |->
        [Name |-> Or(GetOpt(Get(data, "TypeDefinition"), "Name"), JStr("Unknown")),
         Length |-> GetOpt(Get(data, "TypeDefinition"), "Length"),
         SubtypeDefinition |-> GetOpt(Get(data, "TypeDefinition"), "SubtypeDefinition"),
         RecordDefinition |-> GetOpt(Get(data, "TypeDefinition"), "RecordDefinition")],
     Properties |-> ParseProperties(Get(data, "Properties"))]

\* the element of table.Keys made from one raw key
ParseKey(keyData) ==
    [Fields |-> Or(Get(keyData, "FieldNames"), Or(Get(keyData, "Fields"), JList(<< >>))),
     Properties |-> ParseProperties(Get(keyData, "Properties")),
     Name |-> Get(keyData, "Name")]

ParseTableThrows(data) ==
    \/ Truthy(Get(data, "Fields")) /\ MapThrows(Get(data, "Fields"), ElementThrows)
    \/ Truthy(Get(data, "Keys")) /\ MapThrows(Get(data, "Keys"), ElementThrows)

\* parseTable: the members it adds to the base object
ParseTable(data) ==
    (IF Truthy(Get(data, "Fields"))
        THEN [Fields |-> Map(Get(data, "Fields"), ParseField)] ELSE NoFields)
    @@ (IF Truthy(Get(data, "Keys"))
        THEN [Keys |-> Map(Get(data, "Keys"), ParseKey)] ELSE NoFields)

RECURSIVE ParseControlThrows(_)
ParseControlThrows(data) ==
    \/ Nullish(data)
    \/ ParsePropertiesThrows(Get(data, "Properties"))
    \/ Truthy(Get(data, "Controls")) /\ MapThrows(Get(data, "Controls"), ParseControlThrows)

\* parseControl drops the nested controls
ParseControlFlat(data) ==
    [Id |-> Or(Get(data, "Id"), JNum(0)),
     Name |-> Or(Get(data, "Name"), JStr("")),
     Type |-> Or(Get(data, "Type"), JStr("Control")),
     Properties |-> ParseProperties(Get(data, "Properties")),
     Controls |-> << >>]

\* parseControl
RECURSIVE ParseControl(_)
ParseControl(data) ==
    [Id |-> Or(Get(data, "Id"), JNum(0)),
     Name |-> Or(Get(data, "Name"), JStr("")),
     Type |-> Or(Get(data, "Type"), JStr("Control")),
     Properties |-> ParseProperties(Get(data, "Properties")),
     Controls |-> IF Truthy(Get(data, "Controls"))
                  THEN Map(Get(data, "Controls"), ParseControl) ELSE << >>]

ParsePageThrows(data) ==
    Truthy(Get(data, "Controls")) /\ MapThrows(Get(data, "Controls"), ParseControlThrows)

\* parsePage
ParsePage(data) ==
    (LET sourceTableProperty == FindProperty(Get(data, "Properties"), "SourceTable")
     IN  IF sourceTableProperty # None
         THEN [SourceTable |-> Get(sourceTableProperty[1], "Value")] ELSE NoFields)
    @@ (IF Truthy(Get(data, "Controls"))
        THEN [Controls |-> Map(Get(data, "Controls"), ParseControl)] ELSE NoFields)

ParseParameter(paramData) ==
    [Name |-> Or(Get(paramData, "Name"), JStr("")),
     TypeDefinition |->
        [Name |-> Or(GetOpt(Get(paramData, "TypeDefinition"), "Name"), JStr("Unknown")),
         Length |-> GetOpt(Get(paramData, "TypeDefinition"), "Length"),
         SubtypeDefinition |-> GetOpt(Get(paramData, "TypeDefinition"), "SubtypeDefinition")],
     ByReference |-> Or(Get(paramData, "ByReference"), JBool(FALSE))]

ParseProcedureThrows(data) ==
    \/ Nullish(data)
    \/ ParsePropertiesThrows(Get(data, "Properties"))
    \/ Truthy(Get(data, "Parameters")) /\ MapThrows(Get(data, "Parameters"), Nullish)

\* parseProcedure
ParseProcedure(data) ==
    [Name |-> Or(Get(data, "Name"), JStr("")),
     Properties |-> ParseProperties(Get(data, "Properties"))]
    @@ (IF Truthy(Get(data, "ReturnTypeDefinition"))
        THEN [ReturnTypeDefinition |->
                [Name |-> Get(Get(data, "ReturnTypeDefinition"), "Name"),
                 Length |-> Get(Get(data, "ReturnTypeDefinition"), "Length"),
                 SubtypeDefinition |-> Get(Get(data, "ReturnTypeDefinition"), "SubtypeDefinition")]]
        ELSE NoFields)
    @@ (IF Truthy(Get(data, "Parameters"))
        THEN [Parameters |-> Map(Get(data, "Parameters"), ParseParameter)] ELSE NoFields)

ParseCodeunitThrows(data) ==
    IF Truthy(Get(data, "Methods"))
    THEN MapThrows(Get(data, "Methods"), ParseProcedureThrows)
    ELSE Truthy(Get(data, "Procedures")) /\ MapThrows(Get(data, "Procedures"), ParseProcedureThrows)

\* parseCodeunit
ParseCodeunit(data) ==
    IF Truthy(Get(data, "Methods"))
    THEN [Procedures |-> Map(Get(data, "Methods"), ParseProcedure)]
    ELSE IF Truthy(Get(data, "Procedures"))
         THEN [Procedures |-> Map(Get(data, "Procedures"), ParseProcedure)]
         ELSE NoFields

\* a column of a report data item
ParseColumn(column) ==
    [Name |-> Or(Get(column, "Name"), JStr("")),
     SourceExpr |-> Or(Get(column, "SourceExpr"), Get(column, "SourceExpression")),
     Properties |-> ParseProperties(Get(column, "Properties"))]

RECURSIVE ParseDataItemThrows(_)
ParseDataItemThrows(dataItem) ==
    \/ Nullish(dataItem)
    \/ ParsePropertiesThrows(Get(dataItem, "Properties"))
    \/ Truthy(Get(dataItem, "Columns")) /\ MapThrows(Get(dataItem, "Columns"), ElementThrows)
    \/ Truthy(Get(dataItem, "DataItems")) /\ MapThrows(Get(dataItem, "DataItems"), ParseDataItemThrows)

\* one data item, as parseReport and parseDataItems both build it
RECURSIVE ParseDataItem(_)
ParseDataItem(dataItem) ==
    [Name |-> Or(Get(dataItem, "Name"), JStr("")),
     SourceTable |-> Or(Get(dataItem, "SourceTable"), Get(dataItem, "RelatedTable")),
     Properties |-> ParseProperties(Get(dataItem, "Properties")),
     Columns |-> IF Truthy(Get(dataItem, "Columns"))
                 THEN Some(Map(Get(dataItem, "Columns"), ParseColumn)) ELSE None,
     DataItems |-> IF Truthy(Get(dataItem, "DataItems"))
                   THEN Some(Map(Get(dataItem, "DataItems"), ParseDataItem)) ELSE None]

\* parseDataItems
ParseDataItems(dataItems) == Map(dataItems, ParseDataItem)

ParseReportThrows(data) ==
    LET dataItems == Or(Get(data, "Dataset"), Get(data, "DataItems"))
    IN  Truthy(dataItems) /\ MapThrows(dataItems, ParseDataItemThrows)

\* parseReport
ParseReport(data) ==
    LET dataItems == Or(Get(data, "Dataset"), Get(data, "DataItems"))
    IN  IF Truthy(dataItems) THEN [Dataset |-> ParseDataItems(dataItems)] ELSE NoFields

ParseEnumValue(valueData) ==
    [Id |-> Or(Get(valueData, "Id"), JNum(0)),
     Name |-> Or(Get(valueData, "Name"), JStr("")),
     Properties |-> ParseProperties(Get(valueData, "Properties"))]

ParseEnumThrows(data) ==
    Truthy(Get(data, "Values")) /\ MapThrows(Get(data, "Values"), ElementThrows)

\* parseEnum
ParseEnum(data) ==
    IF Truthy(Get(data, "Values"))
    THEN [Values |-> Map(Get(data, "Values"), ParseEnumValue)] ELSE NoFields

\* the concatenation of a sequence of sequences
RECURSIVE Flatten(_)
Flatten(ss) == IF ss = << >> THEN << >> ELSE Head(ss) \o Flatten(Tail(ss))

\* the columns parseQuery collects from one element; DataSource is the pair that
\* the template `${element.Name}.${column.SourceColumn || column.Name}` joins
ParseElementColumns(element) ==
    IF Truthy(Get(element, "Columns"))
    THEN [i \in 1..Len(Get(element, "Columns").items) |->
            LET column == Get(element, "Columns").items[i]
            IN  [Name |-> Or(Get(column, "Name"), JStr("")),
                 DataSource |-> << Get(element, "Name"),
                                   Or(Get(column, "SourceColumn"), Get(column, "Name")) >>,
                 Properties |-> ParseProperties(Get(column, "Properties"))]]
    ELSE << >>

ParseQueryThrows(data) ==
    LET ColumnsThrow(element) ==
            Truthy(Get(element, "Columns")) /\ MapThrows(Get(element, "Columns"), ElementThrows)
    IN  \/ /\ Truthy(Get(data, "Elements"))
           /\ \/ MapThrows(Get(data, "Elements"), ElementThrows)
              \/ MapThrows(Get(data, "Elements"), ColumnsThrow)
        \/ Truthy(Get(data, "DataItems")) /\ MapThrows(Get(data, "DataItems"), ElementThrows)
        \/ Truthy(Get(data, "Columns")) /\ MapThrows(Get(data, "Columns"), ElementThrows)

\* what parseQuery assigns from data.Elements
ParseQueryElements(data) ==
    LET DataItem(element) ==
            [Name |-> Or(Get(element, "Name"), JStr("")),
             DataItemTable |-> Get(element, "RelatedTable"),
             Properties |-> ParseProperties(Get(element, "Properties")),
             DataItemLink |-> Get(element, "DataItemLink")]
        allColumns == Flatten(Map(Get(data, "Elements"), ParseElementColumns))
    IN  IF Truthy(Get(data, "Elements"))
        THEN (IF Len(allColumns) > 0 THEN [Columns |-> allColumns] ELSE NoFields)
             @@ [DataItems |-> Map(Get(data, "Elements"), DataItem)]
        ELSE NoFields

\* what parseQuery assigns afterwards from data.DataItems and data.Columns
ParseQueryLegacy(data) ==
    LET DataItem(dataItem) ==
            [Name |-> Or(Get(dataItem, "Name"), JStr("")),
             DataItemTable |-> Get(dataItem, "DataItemTable"),
             Properties |-> ParseProperties(Get(dataItem, "Properties")),
             DataItemLink |-> Get(dataItem, "DataItemLink")]
        Column(column) ==
            [Name |-> Or(Get(column, "Name"), JStr("")),
             DataSource |-> Get(column, "DataSource"),
             Properties |-> ParseProperties(Get(column, "Properties"))]
    IN  (IF Truthy(Get(data, "DataItems"))
            THEN [DataItems |-> Map(Get(data, "DataItems"), DataItem)] ELSE NoFields)
        @@ (IF Truthy(Get(data, "Columns"))
            THEN [Columns |-> Map(Get(data, "Columns"), Column)] ELSE NoFields)

\* parseQuery: a later assignment to the same member replaces the earlier one
ParseQuery(data) == ParseQueryLegacy(data) @@ ParseQueryElements(data)

ParseXmlPortThrows(data) ==
    \/ Truthy(Get(data, "Variables")) /\ MapThrows(Get(data, "Variables"), Nullish)
    \/ Truthy(Get(data, "Methods")) /\ MapThrows(Get(data, "Methods"), ElementThrows)
    \/ Truthy(Get(data, "Schema")) /\ MapThrows(Get(data, "Schema"), ElementThrows)

\* parseXmlPort
ParseXmlPort(data) ==
    LET Variable(variable) ==
            [Name |-> Or(Get(variable, "Name"), JStr("")),
             TypeDefinition |-> Get(variable, "TypeDefinition")]
        Method(method) ==
            [Name |-> Or(Get(method, "Name"), JStr("")),
             Parameters |-> Get(method, "Parameters"),
             Properties |-> ParseProperties(Get(method, "Properties"))]
        Schema(element) ==
            [Name |-> Or(Get(element, "Name"), JStr("")),
             NodeType |-> Get(element, "NodeType"),
             Properties |-> ParseProperties(Get(element, "Properties")),
             SourceTable |-> Get(element, "SourceTable")]
    IN  (IF Truthy(Get(data, "Variables"))
            THEN [Variables |-> Map(Get(data, "Variables"), Variable)] ELSE NoFields)
        @@ (IF Truthy(Get(data, "Methods"))
            THEN [Methods |-> Map(Get(data, "Methods"), Method)] ELSE NoFields)
        @@ (IF Truthy(Get(data, "Schema"))
            THEN [Schema |-> Map(Get(data, "Schema"), Schema)] ELSE NoFields)

ParseControlAddInThrows(data) ==
    Truthy(Get(data, "Events")) /\ MapThrows(Get(data, "Events"), ElementThrows)

\* parseControlAddIn
ParseControlAddIn(data) ==
    LET Event(event) ==
            [Name |-> Or(Get(event, "Name"), JStr("")),
             Properties |-> ParseProperties(Get(event, "Properties"))]
    IN  (IF Truthy(Get(data, "Events"))
            THEN [Events |-> Map(Get(data, "Events"), Event)] ELSE NoFields)
        @@ (IF Truthy(Get(data, "Scripts")) THEN [Scripts |-> Get(data, "Scripts")] ELSE NoFields)
        @@ (IF Truthy(Get(data, "StyleSheets"))
            THEN [StyleSheets |-> Get(data, "StyleSheets")] ELSE NoFields)

----------------------------------------------------------------------------
(* Collection keys and object types. A name whose characters the code      *)
(* looks at is spelled out as the sequence of its characters.              *)

\* the spelling of the collection keys and of the type names
Spelling ==
    [
     Tables |-> << "T", "a", "b", "l", "e", "s" >>,
     Pages |-> << "P", "a", "g", "e", "s" >>,
     Codeunits |-> << "C", "o", "d", "e", "u", "n", "i", "t", "s" >>,
     Reports |-> << "R", "e", "p", "o", "r", "t", "s" >>,
     Queries |-> << "Q", "u", "e", "r", "i", "e", "s" >>,
     XmlPorts |-> << "X", "m", "l", "P", "o", "r", "t", "s" >>,
     Enums |-> << "E", "n", "u", "m", "s" >>,
     EnumTypes |-> << "E", "n", "u", "m", "T", "y", "p", "e", "s" >>,
     Interfaces |-> << "I", "n", "t", "e", "r", "f", "a", "c", "e", "s" >>,
     PermissionSets |-> << "P", "e", "r", "m", "i", "s", "s", "i", "o", "n", "S", "e", "t", "s" >>,
     ControlAddIns |-> << "C", "o", "n", "t", "r", "o", "l", "A", "d", "d", "I", "n", "s" >>,
     Table |-> << "T", "a", "b", "l", "e" >>,
     Page |-> << "P", "a", "g", "e" >>,
     Codeunit |-> << "C", "o", "d", "e", "u", "n", "i", "t" >>,
     Report |-> << "R", "e", "p", "o", "r", "t" >>,
     Query |-> << "Q", "u", "e", "r", "y" >>,
     XmlPort |-> << "X", "m", "l", "P", "o", "r", "t" >>,
     Enum |-> << "E", "n", "u", "m" >>,
     Interface |-> << "I", "n", "t", "e", "r", "f", "a", "c", "e" >>,
     PermissionSet |-> << "P", "e", "r", "m", "i", "s", "s", "i", "o", "n", "S", "e", "t" >>,
     ControlAddIn |-> << "C", "o", "n", "t", "r", "o", "l", "A", "d", "d", "I", "n" >>
    ]

\* the objectTypes list of processObjectsAtLevel, in its order
ObjectTypeKeys ==
    << "Tables", "Pages", "Codeunits", "Reports", "Queries", "XmlPorts",
       "Enums", "EnumTypes", "Interfaces", "PermissionSets", "ControlAddIns" >>

\* objectType.slice(0, -1)
SliceLast(chars) == SubSeq(chars, 1, Len(chars) - 1)

\* the singular type without the special cases
SingularTypeSliceOnly(objectType) == SliceLast(Spelling[objectType])

\* the singular type processObjectsAtLevel derives from a collection key
SingularType(objectType) ==
    CASE objectType = "EnumTypes" -> Spelling["Enum"]
      [] objectType = "Queries" -> Spelling["Query"]
      [] objectType = "XmlPorts" -> Spelling["XmlPort"]
      [] objectType = "ControlAddIns" -> Spelling["ControlAddIn"]
      [] OTHER -> SliceLast(Spelling[objectType])

\* the typeMap of getObjectTypeFromKey
TypeMap ==
    [Tables |-> Spelling["Table"], Pages |-> Spelling["Page"], Codeunits |-> Spelling["Codeunit"],
     Reports |-> Spelling["Report"], Queries |-> Spelling["Query"], XmlPorts |-> Spelling["XmlPort"],
     Enums |-> Spelling["Enum"], EnumTypes |-> Spelling["Enum"], Interfaces |-> Spelling["Interface"],
     PermissionSets |-> Spelling["PermissionSet"], ControlAddIns |-> Spelling["ControlAddIn"]]

\* getObjectTypeFromKey of a key given as its dot-separated segments
GetObjectTypeFromKey(segments) ==
    LET lastSegment == segments[Len(segments)]
    IN  IF lastSegment \in DOMAIN TypeMap THEN TypeMap[lastSegment] ELSE Spelling[lastSegment]

----------------------------------------------------------------------------
(* One object, one collection, one level, the whole document *)

\* parseALObject never returns null
ParseALObjectNeverNull(data) == FALSE

\* parseALObject returns null only for an entry without Id
ParseALObjectNullWithoutId(data) == ~Truthy(Get(data, "Id"))

\* parseALObject returns null
ParseALObjectReturnsNull(data) == ~Truthy(Get(data, "Id")) \/ ~Truthy(Get(data, "Name"))

\* the type-specific parser raises
ParseMembersThrows(data, objectType) ==
    CASE objectType = Spelling["Table"] -> ParseTableThrows(data)
      [] objectType = Spelling["Page"] -> ParsePageThrows(data)
      [] objectType = Spelling["Codeunit"] -> ParseCodeunitThrows(data)
      [] objectType = Spelling["Report"] -> ParseReportThrows(data)
      [] objectType = Spelling["Enum"] -> ParseEnumThrows(data)
      [] objectType = Spelling["Query"] -> ParseQueryThrows(data)
      [] objectType = Spelling["XmlPort"] -> ParseXmlPortThrows(data)
      [] objectType = Spelling["ControlAddIn"] -> ParseControlAddInThrows(data)
      [] OTHER -> FALSE

\* the members the type-specific parser adds to the base object
ParseMembers(data, objectType) ==
    CASE objectType = Spelling["Table"] -> ParseTable(data)
      [] objectType = Spelling["Page"] -> ParsePage(data)
      [] objectType = Spelling["Codeunit"] -> ParseCodeunit(data)
      [] objectType = Spelling["Report"] -> ParseReport(data)
      [] objectType = Spelling["Enum"] -> ParseEnum(data)
      [] objectType = Spelling["Query"] -> ParseQuery(data)
      [] objectType = Spelling["XmlPort"] -> ParseXmlPort(data)
      [] objectType = Spelling["ControlAddIn"] -> ParseControlAddIn(data)
      [] OTHER -> NoFields

\* parseALObject raises
ParseALObjectThrows(data, objectType) ==
    \/ Nullish(data)
    \/ /\ ~ParseALObjectReturnsNull(data)
       /\ \/ ParsePropertiesThrows(Get(data, "Properties"))
          \/ ParseMembersThrows(data, objectType)

\* parseALObject, when it neither raises nor returns null
ParseALObject(data, objectType, packageName) ==
    ParseMembers(data, objectType)
    @@ [Id |-> Get(data, "Id"),
        Name |-> Get(data, "Name"),
        Type |-> objectType,
        Properties |-> ParseProperties(Get(data, "Properties")),
        ReferenceSourceFileName |-> Get(data, "ReferenceSourceFileName"),
        PackageName |-> packageName]

\* one iteration of processObjectArray: nothing is pushed when parseALObject
\* raises (caught) or returns null. Origin is not a field of the code's object:
\* it records which raw entry the object was made from.
ProcessObjectEntry(objData, objectType, packageName, origin) ==
    IF ParseALObjectThrows(objData, objectType) THEN << >>
    ELSE IF ParseALObjectReturnsNull(objData) THEN << >>
    ELSE << [Origin |-> origin] @@ ParseALObject(objData, objectType, packageName) >>

\* processObjectArray aborts the collection at an entry that raises
ProcessObjectArrayAborts(objects, objectType, packageName, at) ==
    IF \E i \in 1..Len(objects.items) : ParseALObjectThrows(objects.items[i], objectType)
    THEN << >>
    ELSE Flatten([i \in 1..Len(objects.items) |->
            IF ParseALObjectReturnsNull(objects.items[i]) THEN << >>
            ELSE << [Origin |-> [path |-> at.path, key |-> at.key, index |-> i]]
                    @@ ParseALObject(objects.items[i], objectType, packageName) >>])

\* processObjectArray
ProcessObjectArray(objects, objectType, packageName, at) ==
    Flatten([i \in 1..Len(objects.items) |->
        ProcessObjectEntry(objects.items[i], objectType, packageName,
                           [path |-> at.path, key |-> at.key, index |-> i])])

\* processObjectsAtLevel; path is the position of the level in the namespace tree
ProcessObjectsAtLevel(level, packageName, path) ==
    IF ~Truthy(level) \/ level.k \notin {"obj", "list"} THEN << >>
    ELSE Flatten([n \in 1..Len(ObjectTypeKeys) |->
            LET objectType == ObjectTypeKeys[n]
            IN  IF Truthy(Get(level, objectType)) /\ IsArray(Get(level, objectType))
                THEN ProcessObjectArray(Get(level, objectType), SingularType(objectType),
                                        packageName, [path |-> path, key |-> objectType])
                ELSE << >>])

\* processNamespaces raises: it reads namespace.Namespaces of a null element
RECURSIVE ProcessNamespacesThrows(_)
ProcessNamespacesThrows(namespaces) ==
    /\ IsArray(namespaces)
    /\ \E i \in 1..Len(namespaces.items) :
          LET namespace == namespaces.items[i]
          IN  \/ Nullish(namespace)
              \/ /\ Truthy(Get(namespace, "Namespaces"))
                 /\ ProcessNamespacesThrows(Get(namespace, "Namespaces"))

\* processNamespaces
RECURSIVE ProcessNamespaces(_, _, _)
ProcessNamespaces(namespaces, packageName, path) ==
    IF ~IsArray(namespaces) THEN << >>
    ELSE Flatten([i \in 1..Len(namespaces.items) |->
            LET namespace == namespaces.items[i]
            IN  ProcessObjectsAtLevel(namespace, packageName, path \o <<i>>)
                \o (IF Truthy(Get(namespace, "Namespaces")) /\ IsArray(Get(namespace, "Namespaces"))
                    THEN ProcessNamespaces(Get(namespace, "Namespaces"), packageName, path \o <<i>>)
                    ELSE << >>)])

\* processSymbolReference raises
ProcessSymbolReferenceThrows(symbolRef) ==
    \/ Nullish(symbolRef)
    \/ Truthy(Get(symbolRef, "Namespaces")) /\ ProcessNamespacesThrows(Get(symbolRef, "Namespaces"))

\* processSymbolReference reads the root collections only without Namespaces
ProcessSymbolReferenceEitherShape(symbolRef, packageName) ==
    IF Truthy(Get(symbolRef, "Namespaces"))
    THEN ProcessNamespaces(Get(symbolRef, "Namespaces"), packageName, << >>)
    ELSE ProcessObjectsAtLevel(symbolRef, packageName, << >>)

\* processSymbolReference reads the root collections before the namespaces
ProcessSymbolReferenceRootFirst(symbolRef, packageName) ==
    ProcessObjectsAtLevel(symbolRef, packageName, << >>)
    \o (IF Truthy(Get(symbolRef, "Namespaces"))
        THEN ProcessNamespaces(Get(symbolRef, "Namespaces"), packageName, << >>)
        ELSE << >>)

\* processSymbolReference
ProcessSymbolReference(symbolRef, packageName) ==
    (IF Truthy(Get(symbolRef, "Namespaces"))
     THEN ProcessNamespaces(Get(symbolRef, "Namespaces"), packageName, << >>)
     ELSE << >>)
    \o ProcessObjectsAtLevel(symbolRef, packageName, << >>)

----------------------------------------------------------------------------
(* The documents the parser is run on *)

\* the forests of n nodes, each node a label and the forest of its children
RECURSIVE ForestsOfSize(_, _)
ForestsOfSize(n, Labels) ==
    IF n = 0 THEN { << >> }
    ELSE UNION { { << [label |-> l, children |-> c] >> \o rest :
                      l \in Labels,
                      c \in ForestsOfSize(k - 1, Labels),
                      rest \in ForestsOfSize(n - k, Labels) } : k \in 1..n }

Forests(Labels) == UNION { ForestsOfSize(n, Labels) : n \in 0..MaxNodes }

\* the sequences of at most MaxEntries elements of S
RECURSIVE SeqsOfLen(_, _)
SeqsOfLen(n, S) ==
    IF n = 0 THEN { << >> } ELSE { <<x>> \o s : x \in S, s \in SeqsOfLen(n - 1, S) }

Entries(S) == UNION { SeqsOfLen(n, S) : n \in 0..MaxEntries }

\* a raw entry with the given Id and Name, either of them absent when JUndef
Entry(id, name) ==
    JObj((IF id = JUndef THEN NoFields ELSE [Id |-> id])
         @@ (IF name = JUndef THEN NoFields ELSE [Name |-> name]))

Customer == Entry(JNum(18), JStr("Customer"))

\* an entry JSON can hold in a collection: with and without Id and Name, null,
\* and one whose Fields, Methods and Controls are not lists
EntryKinds ==
    { Entry(JUndef, JUndef), Entry(JUndef, JStr("Customer")), Entry(JNum(0), JStr("Customer")),
      Entry(JNum(18), JUndef), Entry(JNum(18), JStr("")), Customer,
      JNull,
      JObj([Id |-> JNum(27), Name |-> JStr("Vendor"),
            Fields |-> JNum(5), Methods |-> JNum(5), Controls |-> JNum(5)]) }

\* documents of one root collection
CollectionDocuments ==
    { JObj(ObjectTypeKeys[n] :> JList(entries)) :
        n \in 1..Len(ObjectTypeKeys), entries \in Entries(EntryKinds) }

\* the collections a level (the root or a namespace) carries
LevelContents ==
    { NoFields,
      [Tables |-> JList(<< Customer >>)],
      [Codeunits |-> JList(<< Entry(JNum(80), JStr("Post")), JNull, Entry(JNum(81), JStr("Check")) >>),
       Pages |-> JList(<< Entry(JNum(21), JStr("Card")) >>)] }

\* the JSON list of a forest: each node an object with the members of its
\* label and, when it has children, their list under the key f
RECURSIVE ForestList(_, _)
ForestList(forest, f) ==
    JList([i \in 1..Len(forest) |->
        JObj((IF forest[i].children = << >> THEN NoFields
              ELSE f :> ForestList(forest[i].children, f))
             @@ forest[i].label)])

\* documents with root-level collections and a tree of namespaces
NamespaceDocuments ==
    { JObj((IF forest = << >> THEN NoFields ELSE [Namespaces |-> ForestList(forest, "Namespaces")]) @@ root) :
        root \in LevelContents, forest \in Forests(LevelContents) }

\* documents whose Namespaces, or an element of it, is not what the walk expects
OddNamespaceDocuments ==
    LET tables == [Tables |-> JList(<< Customer >>)]
        ns == JObj(tables)
    IN  { JObj([Namespaces |-> x] @@ tables) : x \in { JNull, JNum(1), JStr("x"), ns } }
        \cup { JObj([Namespaces |-> JList(<< JObj([Namespaces |-> x] @@ tables) >>)]) :
                 x \in { JNull, JStr("x"), ns } }
        \cup { JObj([Namespaces |-> JList(<< JStr("x"), ns >>)]),
               JObj([Namespaces |-> JList(<< ns, JNull, ns >>)] @@ tables),
               JObj([Namespaces |-> JList(<< JObj([Namespaces |-> JList(<< JNull >>)] @@ tables) >>)]) }

\* a node of a control tree or of a data-item tree: its Properties is absent,
\* not a list, or a list
NodeLabels ==
    { NoFields,
      [Properties |-> JStr("x")],
      [Properties |-> JList(<< JObj([Name |-> JStr("Caption"), Value |-> JStr("A")]) >>)] }

\* pages with a control tree, reports with a data-item tree
TreeDocuments ==
    { JObj([Pages |-> JList(<< JObj([Id |-> JNum(21), Name |-> JStr("Card"),
                                     Controls |-> ForestList(forest, "Controls")]) >>)]) :
        forest \in Forests(NodeLabels) }
    \cup { JObj([Reports |-> JList(<< JObj([Id |-> JNum(6), Name |-> JStr("List"),
                                           Dataset |-> ForestList(forest, "DataItems")]) >>)]) :
             forest \in Forests(NodeLabels) }

\* a JSON object { Name: name }
Named(name) == JObj([Name |-> JStr(name)])

\* the presence or absence of a member: the record with it, the record without
Maybe(f, values) == { NoFields } \cup { f :> v : v \in values }

\* entries that carry none, one or both historical variants of a member collection
VariantDocuments ==
    { JObj([Codeunits |-> JList(<< JObj(methods @@ procedures
                                        @@ [Id |-> JNum(80), Name |-> JStr("Post")]) >>)]) :
        methods \in Maybe("Methods", { JList(<< >>), JList(<< Named("Run") >>) }),
        procedures \in Maybe("Procedures", { JList(<< Named("OnRun") >>) }) }
    \cup { JObj([Reports |-> JList(<< JObj(dataset @@ dataItems
                                           @@ [Id |-> JNum(6), Name |-> JStr("List")]) >>)]) :
             dataset \in Maybe("Dataset", { JList(<< Named("Header") >>) }),
             dataItems \in Maybe("DataItems", { JList(<< Named("Line") >>) }) }
    \cup { JObj([Queries |-> JList(<< JObj(elements @@ dataItems @@ columns
                                           @@ [Id |-> JNum(9), Name |-> JStr("Sales")]) >>)]) :
             elements \in Maybe("Elements",
                { JList(<< Named("Element") >>),
                  JList(<< JObj([Name |-> JStr("Element"),
                                 Columns |-> JList(<< Named("Amount") >>)]) >>) }),
             dataItems \in Maybe("DataItems", { JList(<< Named("Item") >>) }),
             columns \in Maybe("Columns", { JList(<< Named("Total") >>) }) }
    \cup { JObj([Tables |-> JList(<< JObj([Id |-> JNum(18), Name |-> JStr("Customer"),
                    Keys |-> JList(<< JObj(fieldNames @@ fields @@ [Name |-> JStr("PK")]) >>)]) >>)]) :
             fieldNames \in Maybe("FieldNames", { JList(<< JStr("No.") >>) }),
             fields \in Maybe("Fields", { JList(<< JStr("Name") >>) }) }

\* a document with an entry under each of the 11 keys, each with members of its type
FullDocument ==
    LET caption == JList(<< JObj([Name |-> JStr("Caption"), Value |-> JStr("A")]) >>)
        code == JObj([Name |-> JStr("Code"), Length |-> JNum(20)])
        E(id, name, members) == JList(<< JObj(members @@ [Id |-> JNum(id), Name |-> JStr(name)]) >>)
    IN  JObj([Tables |-> E(18, "Customer",
                    [Properties |-> caption,
                     Fields |-> JList(<< JObj([Id |-> JNum(1), Name |-> JStr("No."),
                                               TypeDefinition |-> code, Properties |-> caption]),
                                         Named("Name") >>)]),
              Pages |-> E(21, "Card",
                    [Properties |-> JList(<< JObj([Name |-> JStr("SourceTable"),
                                                   Value |-> JStr("Customer")]) >>)]),
              Codeunits |-> E(80, "Post",
                    [Methods |-> JList(<< JObj([Name |-> JStr("Run"), ReturnTypeDefinition |-> code,
                                                Parameters |-> JList(<< JObj([Name |-> JStr("Rec"),
                                                                              ByReference |-> JNum(1)]) >>)]) >>)]),
              Reports |-> E(6, "List",
                    [DataItems |-> JList(<< JObj([Name |-> JStr("Line"), RelatedTable |-> JStr("Customer"),
                                                  Columns |-> JList(<< JObj([Name |-> JStr("Amount"),
                                                                             SourceExpression |-> JStr("Amt")]) >>)]) >>)]),
              Queries |-> E(9, "Sales", NoFields),
              XmlPorts |-> E(5, "Export",
                    [Variables |-> JList(<< Named("Rec") >>), Methods |-> JList(<< Named("Run") >>),
                     Schema |-> JList(<< Named("Root") >>)]),
              Enums |-> E(3, "Status", [Values |-> JList(<< JObj([Id |-> JNum(1), Name |-> JStr("Open")]),
                                                            Named("Closed") >>)]),
              EnumTypes |-> E(4, "Kind", NoFields),
              Interfaces |-> E(7, "IPost", NoFields),
              PermissionSets |-> E(8, "Basic", NoFields),
              ControlAddIns |-> E(2, "Chart",
                    [Events |-> JList(<< Named("Ready") >>), Scripts |-> JList(<< JStr("chart.js") >>),
                     StyleSheets |-> JList(<< JStr("chart.css") >>)])])

\* text that is JSON but whose root is not an object
OddRoots == { JNull, JNum(0), JNum(7), JStr(""), JStr("x"), JList(<< >>), JList(<< JObj([Tables |-> JList(<< Customer >>)]) >>) }

\* a property: names that repeat, names that differ in case only, a property
\* without Value, a property without Name
PropertyKinds ==
    { JObj([Name |-> JStr(n), Value |-> JStr(v)]) :
        <<n, v>> \in { <<"Caption", "A">>, <<"Caption", "B">>, <<"SourceTable", "Customer">>,
                      <<"SourceTable", "Vendor">>, <<"sourcetable", "Item">> } }
    \cup { JObj([Name |-> JStr("SourceTable")]), JObj([Value |-> JStr("A")]) }

\* a table and a page that carry one property list, on the object and on a
\* field and on a control
PropertyDocuments ==
    { JObj([Tables |-> JList(<< JObj([Id |-> JNum(18), Name |-> JStr("Customer"),
                Properties |-> JList(properties),
                Fields |-> JList(<< JObj([Id |-> JNum(1), Name |-> JStr("No."),
                                          Properties |-> JList(properties)]) >>)]) >>),
            Pages |-> JList(<< JObj([Id |-> JNum(21), Name |-> JStr("Card"),
                Properties |-> JList(properties),
                Controls |-> JList(<< JObj([Name |-> JStr("Name"),
                                            Properties |-> JList(properties)]) >>)]) >>)]) :
        properties \in Entries(PropertyKinds) }

Documents ==
    CollectionDocuments \cup NamespaceDocuments \cup OddNamespaceDocuments
    \cup TreeDocuments \cup VariantDocuments \cup PropertyDocuments \cup { FullDocument }
    \cup OddRoots

\* the package files: where each is, and the name it is loaded under
Packages ==
    { [symbolPackagePath |-> "Base.app", packageName |-> "Base Application"],
      [symbolPackagePath |-> "My.app", packageName |-> "My App"] }

\* the text of SymbolReference.json, given by the value it denotes: None when the
\* text is not JSON
Texts == Opt(Documents)

\* the calls of parseSymbolPackage: every text as the first package, the texts
\* of the smaller families as the second as well, and a few texts with NUL
\* characters after them. The field text is what the file denotes, nuls the
\* number of NUL characters that follow it in the file
Inputs ==
    { [symbolPackagePath |-> p.symbolPackagePath, packageName |-> p.packageName, text |-> t, nuls |-> 0] :
        p \in Packages,
        t \in Opt(VariantDocuments \cup { FullDocument } \cup OddRoots) }
    \cup { [symbolPackagePath |-> "Base.app", packageName |-> "Base Application", text |-> t, nuls |-> 0] :
              t \in Texts }
    \cup { [symbolPackagePath |-> "Base.app", packageName |-> "Base Application", text |-> t, nuls |-> n] :
              t \in Opt({ FullDocument } \cup OddRoots), n \in 0..MaxNuls }

\* the characters of a text: the text of a JSON value is a head, which carries
\* the value, followed by a tail, and is valid only whole and in this order; a
\* text that is not JSON is a single character; NUL is a character of its own
Nul == [c |-> "nul"]

Encode(text) ==
    IF text = None THEN << [c |-> "junk"] >>
    ELSE << [c |-> "head", of |-> text[1]], [c |-> "tail"] >>

\* the content of SymbolReference.json in the package of call i
FileText(i) == Encode(i.text) \o [n \in 1..i.nuls |-> Nul]

\* the ways a stream cuts a text into chunks
RECURSIVE Chunkings(_)
Chunkings(text) ==
    IF text = << >> THEN { << >> }
    ELSE UNION { { << SubSeq(text, 1, k) >> \o rest : rest \in Chunkings(SubSeq(text, k + 1, Len(text))) } :
                    k \in 1..Len(text) }

\* a call together with the chunks its stream delivers: the texts with NUL
\* characters in every cut, the others in one chunk
Deliveries ==
    { [input |-> i, stream |-> << FileText(i) >>] : i \in Inputs }
    \cup UNION { { [input |-> i, stream |-> chunks] : chunks \in Chunkings(FileText(i)) } :
                    i \in { j \in Inputs : j.text \in Opt({ FullDocument } \cup OddRoots)
                                            /\ j.packageName = "Base Application" } }

----------------------------------------------------------------------------
(* parseSymbolPackage, one action per stretch between two awaits or events *)

ParserInit ==
    /\ ServerIdle
    /\ InstallerIdle
    /\ \E d \in Deliveries :
          /\ input = Some(d.input)
          /\ stream = d.stream
    /\ jsonData = << >>
    /\ ppc = "new"
    /\ streamResult = Pending
    /\ packageResult = Pending
    /\ progress = << >>

\* reportProgress with a progress callback installed
ReportProgress(events, phase, processed, total) ==
    Append(events, [phase |-> phase, processed |-> processed, total |-> total])

Resolved(objects) == [status |-> "resolved", objects |-> objects, error |-> None]

Failed(error) == [status |-> "rejected", objects |-> << >>, error |-> Some(error)]

\* jsonData.replace(/\0+$/, '')
RECURSIVE CleanJsonData(_)
CleanJsonData(data) ==
    IF data # << >> /\ data[Len(data)] = Nul
    THEN CleanJsonData(SubSeq(data, 1, Len(data) - 1))
    ELSE data

\* JSON.parse raises
JsonParseThrows(text) == ~(Len(text) = 2 /\ text[1].c = "head" /\ text[2].c = "tail")

\* JSON.parse
JsonParse(text) == text[1].of

\* how the 'end' handler settles the promise of parseSymbolStream
StreamEndResult(data, packageName) ==
    LET text == CleanJsonData(data)
    IN  IF JsonParseThrows(text) \/ ProcessSymbolReferenceThrows(JsonParse(text))
        THEN Failed([message |-> "JSON parsing error"])
        ELSE Resolved(ProcessSymbolReference(JsonParse(text), packageName))

\* the 'end' handler reports 'completed' whether or not the parse succeeded
StreamEndProgressUnguarded(events, data, packageName) ==
    LET parsing == ReportProgress(events, "parsing", 0, None)
        processing == ReportProgress(parsing, "processing", 0, None)
        settled == StreamEndResult(data, packageName)
    IN  ReportProgress(processing, "completed", Len(settled.objects), Some(Len(settled.objects)))

\* what the 'end' handler reports
StreamEndProgress(events, data, packageName) ==
    LET parsing == ReportProgress(events, "parsing", 0, None)
        processing == ReportProgress(parsing, "processing", 0, None)
        settled == StreamEndResult(data, packageName)
    IN  IF JsonParseThrows(CleanJsonData(data)) THEN parsing
        ELSE IF settled.status = "rejected" THEN processing
        ELSE ReportProgress(processing, "completed", Len(settled.objects), Some(Len(settled.objects)))

\* the catch of parseSymbolPackage
PackageError(symbolPackagePath, cause) ==
    [message |-> "Failed to parse symbol package", path |-> symbolPackagePath, cause |-> cause]

\* parseSymbolPackage is called and runs to `await extractSymbolReference`
ParseStart ==
    /\ ppc = "new"
    /\ progress' = ReportProgress(ReportProgress(progress, "opening", 0, None), "extracting", 0, None)
    /\ ppc' = "extracting"
    /\ UNCHANGED <<serverVars, installerVars, input, stream, jsonData, streamResult, packageResult>>

\* extractSymbolReference settles: with a stream, and parseSymbolStream attaches
\* its handlers, or with an error, and parseSymbolPackage rejects
ExtractSettles(ok) ==
    /\ ppc = "extracting"
    /\ IF ok
       THEN /\ progress' = ReportProgress(progress, "parsing", 0, None)
            /\ ppc' = "streaming"
            /\ UNCHANGED packageResult
       ELSE /\ packageResult' = Failed(PackageError(input[1].symbolPackagePath,
                                                    [message |-> "extraction failed"]))
            /\ ppc' = "done"
            /\ UNCHANGED progress
    /\ UNCHANGED <<serverVars, installerVars, input, stream, jsonData, streamResult>>

\* the 'data' handler puts the chunk in front of the text
OnDataPrepends(data, chunk) == chunk \o data

\* the 'data' handler: jsonData += chunk.toString(); a chunk of the model is
\* the string the chunk gives
OnData(data, chunk) == data \o chunk

\* the stream delivers its next chunk
StreamData ==
    /\ ppc = "streaming"
    /\ stream # << >>
    /\ jsonData' = OnData(jsonData, Head(stream))
    /\ stream' = Tail(stream)
    /\ UNCHANGED <<serverVars, installerVars, input, ppc, streamResult, packageResult, progress>>

\* the stream ends after delivering all its chunks
StreamEnds ==
    /\ ppc = "streaming"
    /\ stream = << >>
    /\ streamResult' = StreamEndResult(jsonData, input[1].packageName)
    /\ progress' = StreamEndProgress(progress, jsonData, input[1].packageName)
    /\ ppc' = "settled"
    /\ UNCHANGED <<serverVars, installerVars, input, stream, jsonData, packageResult>>

\* the stream fails, after any number of chunks
StreamErrors ==
    /\ ppc = "streaming"
    /\ streamResult' = Failed([message |-> "Stream reading error"])
    /\ ppc' = "settled"
    /\ UNCHANGED <<serverVars, installerVars, input, stream, jsonData, packageResult, progress>>

\* parseSymbolPackage resumes after `await parseSymbolStream`
PackageSettles ==
    /\ ppc = "settled"
    /\ IF streamResult.status = "resolved"
       THEN /\ progress' = ReportProgress(progress, "completed", Len(streamResult.objects),
                                          Some(Len(streamResult.objects)))
            /\ packageResult' = Resolved(streamResult.objects)
       ELSE /\ packageResult' = Failed(PackageError(input[1].symbolPackagePath, streamResult.error[1]))
            /\ UNCHANGED progress
    /\ ppc' = "done"
    /\ UNCHANGED <<serverVars, installerVars, input, stream, jsonData, streamResult>>

ParserNext ==
    \/ ParseStart
    \/ \E ok \in BOOLEAN : ExtractSettles(ok)
    \/ StreamData
    \/ StreamEnds
    \/ StreamErrors
    \/ PackageSettles

ParserSpec == ParserInit /\ [][ParserNext]_vars

----------------------------------------------------------------------------
(* The installer script: its entry point and ALMCPInstaller *)

\* serverName
ServerName == "al"

\* the property of settings.json that holds the servers of Claude Code
ClaudeServers == "claude.mcpServers"

\* args.includes(option)
Includes(args, option) == \E n \in 1..Len(args) : args[n] = option

\* isRunningAsMCPServer
IsRunningAsMCPServer(stdinIsTTY, stdoutIsTTY) == ~stdinIsTTY /\ ~stdoutIsTTY

\* the entry point: the branch it takes
EntryPoint(args, stdinIsTTY, stdoutIsTTY, CI) ==
    IF /\ IsRunningAsMCPServer(stdinIsTTY, stdoutIsTTY)
       /\ ~Includes(args, "--help") /\ ~Includes(args, "--version")
    THEN "server"
    ELSE IF Includes(args, "--help") \/ Includes(args, "-h") THEN "help"
    ELSE IF Includes(args, "--version") \/ Includes(args, "-v") THEN "version"
    ELSE IF Includes(args, "--ci") \/ CI THEN "ci"
    ELSE "install"

\* a file that does not exist
Absent == [exists |-> FALSE]

\* an existing file: its text, and whether it can be read and written
File(text, readable, writable) ==
    [exists |-> TRUE, text |-> text, readable |-> readable, writable |-> writable]

\* the text of a JSON value, laid out with the given indentation; a text that
\* is not JSON is [json |-> FALSE]. JSON.stringify(value, null, 2) is JsonText(value, 2)
JsonText(value, indent) == [json |-> TRUE, value |-> value, indent |-> indent]

\* fs.readFileSync followed by JSON.parse raises
ReadJsonThrows(file) == ~file.readable \/ ~file.text.json

\* fs.readFileSync followed by JSON.parse
ReadJson(file) == file.text.value

\* fs.writeFileSync raises
WriteFileSyncThrows(file) == file.exists /\ ~file.writable

\* fs.writeFileSync
WriteFileSync(file, text) ==
    IF file.exists THEN [file EXCEPT !.text = text] ELSE File(text, TRUE, TRUE)

\* target[f] = v raises: always on null and undefined, on a primitive in strict mode
AssignThrows(target, strict) ==
    Nullish(target) \/ (strict /\ target.k \in {"num", "str", "bool"})

\* the JSON value of target after target[f] = v: a property set on an array
\* is not serialized, one set on a primitive is dropped
Assign(target, f, v) ==
    IF target.k = "obj"
    THEN JObj([g \in DOMAIN target.fields \cup {f} |-> IF g = f THEN v ELSE target.fields[g]])
    ELSE target

\* the entry installForClaudeCode writes; "/pkg/dist/index.js" stands for serverPath
ClaudeEntry(useNpx) ==
    JObj([command |-> JStr(IF useNpx THEN "npx" ELSE "node"),
          args |-> JList(<< JStr(IF useNpx THEN "arbentia-mcp-server" ELSE "/pkg/dist/index.js") >>)])

\* the entry installForVSCode writes
VSCodeEntry(useNpx) == JObj([type |-> JStr("stdio")] @@ ClaudeEntry(useNpx).fields)

\* the try block of installForClaudeCode raises
ClaudeSettingsThrows(file, strict) ==
    IF file.exists /\ ReadJsonThrows(file) THEN TRUE
    ELSE LET settings == IF file.exists THEN ReadJson(file) ELSE JObj(NoFields)
         IN  \/ Nullish(settings)
             \/ settings.k \in {"num", "str", "bool"}
             \/ /\ Truthy(Get(settings, ClaudeServers))
                /\ AssignThrows(Get(settings, ClaudeServers), strict)
             \/ WriteFileSyncThrows(file)

\* installForClaudeCode replaces the servers of Claude Code by its own entry
ClaudeSettingsReplaced(file, useNpx) ==
    LET settings == IF file.exists THEN ReadJson(file) ELSE JObj(NoFields)
    IN  WriteFileSync(file, JsonText(Assign(settings, ClaudeServers,
                                            JObj(ServerName :> ClaudeEntry(useNpx))), 2))

\* settings.json after the try block of installForClaudeCode
ClaudeSettings(file, useNpx) ==
    LET settings == IF file.exists THEN ReadJson(file) ELSE JObj(NoFields)
        servers == IF Truthy(Get(settings, ClaudeServers))
                   THEN Get(settings, ClaudeServers) ELSE JObj(NoFields)
    IN  WriteFileSync(file, JsonText(Assign(settings, ClaudeServers,
                                            Assign(servers, ServerName, ClaudeEntry(useNpx))), 2))

\* the try block of installForVSCode raises (after it made the directory)
McpConfigThrows(file, strict) ==
    IF file.exists /\ ReadJsonThrows(file) THEN TRUE
    ELSE LET mcpConfig == IF file.exists THEN ReadJson(file) ELSE JObj([servers |-> JObj(NoFields)])
         IN  \/ Nullish(mcpConfig)
             \/ AssignThrows(Get(mcpConfig, "servers"), strict)
             \/ WriteFileSyncThrows(file)

\* mcp.json after the try block of installForVSCode
McpConfig(file, useNpx) ==
    LET mcpConfig == IF file.exists THEN ReadJson(file) ELSE JObj([servers |-> JObj(NoFields)])
        servers == Assign(Get(mcpConfig, "servers"), ServerName, VSCodeEntry(useNpx))
    IN  WriteFileSync(file, JsonText(IF Get(mcpConfig, "servers").k = "obj"
                                     THEN Assign(mcpConfig, "servers", servers)
                                     ELSE mcpConfig, 2))

\* the servers a configuration file may hold already: an entry of this server,
\* old or current, and one of another server
ServerMaps(current) ==
    { JObj(al @@ other) :
        al \in { NoFields,
                 [al |-> JObj([command |-> JStr("node"), args |-> JList(<< JStr("/old/index.js") >>)])],
                 [al |-> current] },
        other \in { NoFields, [github |-> JObj([command |-> JStr("gh"), args |-> JList(<< >>)])] } }

\* the states of a configuration file: absent, each value in the layout of
\* JSON.stringify, and one value in another layout, unreadable, read-only, and
\* a text that is not JSON
ConfigFiles(Values, usual) ==
    { Absent, File([json |-> FALSE], TRUE, TRUE), File(JsonText(usual, 4), TRUE, TRUE),
      File(JsonText(usual, 2), FALSE, TRUE), File(JsonText(usual, 2), TRUE, FALSE) }
    \cup { File(JsonText(v, 2), TRUE, TRUE) : v \in Values }

\* the files the installer finds: settings.json with and without another
\* setting, with and without servers of Claude Code, which may be no object,
\* and mcp.json likewise; without its directory a file is absent
FileSystems ==
    LET SettingsValues ==
            { JNull, JNum(1), JList(<< >>) }
            \cup { JObj(font @@ servers) :
                     font \in { NoFields, [editor |-> JNum(14)] },
                     servers \in { NoFields }
                                 \cup { ClaudeServers :> v :
                                          v \in ServerMaps(ClaudeEntry(TRUE))
                                                \cup { JNull, JBool(TRUE), JList(<< >>) } } }
        McpValues ==
            { JNull, JList(<< >>) }
            \cup { JObj(inputs @@ servers) :
                     inputs \in { NoFields, [inputs |-> JList(<< >>)] },
                     servers \in { NoFields }
                                 \cup { [servers |-> v] :
                                          v \in ServerMaps(VSCodeEntry(TRUE)) \cup { JNull, JBool(TRUE) } } }
    IN  { fs \in [settingsDir : BOOLEAN,
                  settings : ConfigFiles(SettingsValues,
                                         JObj([editor |-> JNum(14)]
                                              @@ (ClaudeServers :> JObj([github |-> JStr("gh")])))),
                  vscodeDir : BOOLEAN,
                  mcp : ConfigFiles(McpValues, JObj([servers |-> JObj([github |-> JStr("gh")])]))] :
            /\ ~fs.settingsDir => fs.settings = Absent
            /\ ~fs.vscodeDir => fs.mcp = Absent }

\* the starts of the script: every command line, of the options the entry
\* point looks for and an argument it does not know, in every terminal on a
\* machine without configuration files; and the bare command in a terminal on
\* every file system
Invocations ==
    { [args |-> a, stdinIsTTY |-> i, stdoutIsTTY |-> o, CI |-> ci, useNpx |-> TRUE, strict |-> TRUE,
       files |-> [settingsDir |-> TRUE, settings |-> Absent, vscodeDir |-> FALSE, mcp |-> Absent]] :
        a \in UNION { SeqsOfLen(n, {"--help", "-h", "--version", "-v", "--ci", "--verbose"}) :
                        n \in 0..MaxArgs },
        i \in BOOLEAN, o \in BOOLEAN, ci \in BOOLEAN }
    \cup { [args |-> << >>, stdinIsTTY |-> TRUE, stdoutIsTTY |-> TRUE, CI |-> FALSE,
            useNpx |-> n, strict |-> s, files |-> fs] :
             n \in BOOLEAN, s \in BOOLEAN, fs \in FileSystems }

InstallerInit ==
    /\ ServerIdle
    /\ ParserIdle
    /\ invocation \in { Some(i) : i \in Invocations }
    /\ files = invocation[1].files
    /\ ipc = "new"
    /\ did = "nothing"
    /\ runs = 0
    /\ log = {}

\* the script runs its entry point: it starts the server, prints and exits,
\* or runs install() up to the first await of checkALTools
Main ==
    /\ ipc = "new"
    /\ LET branch == EntryPoint(invocation[1].args, invocation[1].stdinIsTTY,
                                invocation[1].stdoutIsTTY, invocation[1].CI)
       IN  /\ did' = branch
           /\ ipc' = CASE branch = "server" -> "serving"
                       [] branch = "install" -> "checkALTools"
                       [] OTHER -> "exited"
    /\ log' = {}
    /\ UNCHANGED <<serverVars, parserVars, invocation, files, runs>>

\* checkALTools returns: it catches what its commands raise
CheckALTools(found) ==
    /\ ipc = "checkALTools"
    /\ log' = log \cup { IF found THEN "AL CLI tools found" ELSE "AL CLI tools not found" }
    /\ ipc' = "installForClaudeCode"
    /\ UNCHANGED <<serverVars, parserVars, invocation, files, did, runs>>

\* installForClaudeCode
InstallForClaudeCode ==
    /\ ipc = "installForClaudeCode"
    /\ IF ~files.settingsDir
       THEN /\ log' = log \cup {"Claude Code skipped"}
            /\ UNCHANGED files
       ELSE IF ClaudeSettingsThrows(files.settings, invocation[1].strict)
       THEN /\ log' = log \cup {"Claude Code failed"}
            /\ UNCHANGED files
       ELSE /\ log' = log \cup {"Claude Code configured"}
            /\ files' = [files EXCEPT !.settings = ClaudeSettings(files.settings, invocation[1].useNpx)]
    /\ ipc' = "installForVSCode"
    /\ UNCHANGED <<serverVars, parserVars, invocation, did, runs>>

\* installForVSCode; findWorkspaceRoot falls back to the current directory,
\* so a workspace is always found
InstallForVSCode ==
    /\ ipc = "installForVSCode"
    /\ IF McpConfigThrows(files.mcp, invocation[1].strict)
       THEN /\ log' = log \cup {"VS Code failed"}
            /\ files' = [files EXCEPT !.vscodeDir = TRUE]
       ELSE /\ log' = log \cup {"VS Code configured"}
            /\ files' = [files EXCEPT !.vscodeDir = TRUE,
                                      !.mcp = McpConfig(files.mcp, invocation[1].useNpx)]
    /\ ipc' = "showManualInstructions"
    /\ UNCHANGED <<serverVars, parserVars, invocation, did, runs>>

\* showManualInstructions, and install() returns
ShowManualInstructions ==
    /\ ipc = "showManualInstructions"
    /\ ipc' = "completed"
    /\ runs' = runs + 1
    /\ UNCHANGED <<serverVars, parserVars, invocation, files, did, log>>

\* the same command is run again on the files the last run left
RunAgain ==
    /\ ipc = "completed"
    /\ runs < MaxRuns
    /\ ipc' = "new"
    /\ UNCHANGED <<serverVars, parserVars, invocation, files, did, runs, log>>

InstallerNext ==
    \/ Main
    \/ \E found \in BOOLEAN : CheckALTools(found)
    \/ InstallForClaudeCode
    \/ InstallForVSCode
    \/ ShowManualInstructions
    \/ RunAgain

InstallerSpec == InstallerInit /\ [][InstallerNext]_vars

----------------------------------------------------------------------------
(* Properties *)

\* call r has arrived
Arrived(r) == pc[r] # "new"

\* the request of call r (defined once it has arrived)
RequestOf(r) == req[r][1]

\* the handler of call r got past ensureInitialized and ran its switch
Dispatched(r) ==
    /\ pc[r] \in {"awaitTool", "done"}
    /\ ~(result[r].isError /\ result[r].content[1].text = InitFailedMessage)

\* some run of performInitialization has ended
SomeRunSettled == \E i \in 1..Len(inits) : inits[i].state # "pending"

\* the text of the response of call r, None while there is none
ResponseText(r) ==
    IF result[r].status = "returned" THEN Some(result[r].content[1].text) ELSE None

\* C1: however many tool calls arrive before initialization has finished,
\* performInitialization is started at most once, and every call that waits in
\* ensureInitialized waits for the promise of that one run, which is the promise
\* initializationPromise holds while the run is in progress.
C1_SingleFlight ==
    /\ Len(inits) <= 1
    /\ \A r \in Requests : pc[r] = "awaitInit" => awaiting[r] = 1
    /\ \A i \in 1..Len(inits) : inits[i].state = "pending" => initializationPromise = i

\* two calls wait for the same run, which is still in progress
C1_Witness ==
    /\ Len(inits) = 1
    /\ inits[1].state = "pending"
    /\ \E r1, r2 \in Requests :
          r1 # r2 /\ pc[r1] = "awaitInit" /\ pc[r2] = "awaitInit" /\ awaiting[r1] = awaiting[r2]

\* C2: once a run of performInitialization has ended, with setupALCli succeeding
\* or throwing, isInitialized is true and initializationPromise is null, and no
\* step starts another run.
C2_NoRetry ==
    [][SomeRunSettled =>
          /\ isInitialized /\ initializationPromise = 0
          /\ isInitialized' /\ initializationPromise' = 0
          /\ Len(inits') = Len(inits)]_vars

\* setupALCli threw, and a call that arrived afterwards went straight through
\* ensureInitialized without awaiting anything
C2_Witness ==
    /\ Len(inits) = 1
    /\ inits[1].outcome = "threw"
    /\ \E r \in Requests : Arrived(r) /\ awaiting[r] = 0

\* the initialization state the server's two fields can express
InitializationState ==
    IF initializationPromise # 0 THEN "InProgress"
    ELSE IF isInitialized THEN "Ready"
    ELSE "Uninitialized"

\* C3: after a run of performInitialization ended because setupALCli threw, the
\* server's initialization state is Failed and not Ready.
C3_FailureRecorded ==
    \A i \in 1..Len(inits) :
        inits[i].outcome = "threw" => InitializationState = "Failed"

\* C4: given that setupALCli settles in the end, every tool call that has
\* arrived, before, during or after initialization, and also after a failed one,
\* gets past ensureInitialized and is dispatched.
C4_NoHang == \A r \in Requests : Arrived(r) ~> Dispatched(r)

\* a call that waited for an initialization whose setup threw has been dispatched
C4_Witness ==
    \E r \in Requests :
        /\ awaiting[r] # 0
        /\ inits[awaiting[r]].outcome = "threw"
        /\ Dispatched(r)

\* C5: for every tool name and every argument value, missing arguments
\* included, the handler never rejects; when it has ended it has returned a
\* content list of one text item, with isError set whenever an error was raised
\* by its switch or by the operation it awaited.
C5_WellFormedResponse ==
    \A r \in Requests :
        /\ result[r].status # "rejected"
        /\ pc[r] = "done" =>
              /\ result[r].status = "returned"
              /\ Len(result[r].content) = 1
              /\ result[r].content[1].type = "text"
              /\ HandlerSwitch(RequestOf(r).name, RequestOf(r).args).t = "throw" => result[r].isError
              /\ ResponseText(r) = Some("operation failed") => result[r].isError

\* al_get_object_summary without arguments has been answered with an error response
C5_Witness ==
    /\ pc[1] = "done"
    /\ RequestOf(1).name = "al_get_object_summary" /\ RequestOf(1).args = None
    /\ result[1].status = "returned" /\ result[1].isError

\* the three kinds of invalid request the handler is to reject
InvalidRequest(q) ==
    \/ q.name \notin ListedNames
    \/ /\ q.name = "al_packages"
       /\ \/ Field(q.args, "action") \notin {Some("load"), Some("list"), Some("stats")}
          \/ Field(q.args, "action") = Some("load") /\ Field(q.args, "path") = None

\* the texts of the error responses
ErrorTexts == {"Unknown tool", "Unknown action", "path parameter required for load action"}

\* C6: a packages request with action load and no path, a packages request with
\* an action outside load, list and stats, and a request for an unknown tool are
\* answered with an error without any operation of the tools facade being invoked.
C6_InvalidRejected ==
    \A r \in Requests :
        (Arrived(r) /\ InvalidRequest(RequestOf(r))) =>
            /\ call[r] = None
            /\ pc[r] # "awaitTool"
            /\ pc[r] = "done" => ResponseText(r) \in {Some(t) : t \in ErrorTexts}

\* a load request without a path has been answered
C6_Witness ==
    /\ pc[1] = "done"
    /\ RequestOf(1).name = "al_packages"
    /\ Field(RequestOf(1).args, "action") = Some("load")
    /\ Field(RequestOf(1).args, "path") = None
    /\ ResponseText(1) = Some("path parameter required for load action")

\* the value of search argument f that the invoked search operation receives:
\* searchObjects receives the whole argument object, searchByDomain a domain and
\* a list of types
PassedToSearch(c, f) ==
    CASE c.op = "searchObjects" -> Field(c.params, f)
      [] c.op = "searchByDomain" ->
            IF f = "domain" THEN Some(c.params.domain)
            ELSE IF f = "objectType" /\ c.params.objectTypes # None
                 THEN Some(c.params.objectTypes[1][1])
                 ELSE None
      [] OTHER -> None

\* call r is a search whose arguments are present and whose operation has been invoked
SearchInvoked(r) ==
    /\ Arrived(r)
    /\ RequestOf(r).name = "al_search_objects"
    /\ RequestOf(r).args # None
    /\ call[r] # None

\* C7: the filters of a search combine with AND: the pattern, objectType,
\* packageName and domain a request supplies all reach the search, also when a
\* domain is supplied.
C7_FiltersCombine ==
    \A r \in Requests :
        SearchInvoked(r) =>
            \A f \in {"pattern", "objectType", "packageName", "domain"} :
                PassedToSearch(call[r][1], f) = RequestOf(r).args[1][f]

\* C8: the limit and offset of every search request reach the search, also
\* when a domain is supplied.
C8_PaginationApplied ==
    \A r \in Requests :
        SearchInvoked(r) =>
            \A f \in {"limit", "offset"} :
                PassedToSearch(call[r][1], f) = RequestOf(r).args[1][f]

\* C9: for a packages request with action load, a path and forceReload true, the
\* load operation that is invoked receives forceReload true, whatever autoDiscover is.
C9_ForceReloadHonoured ==
    \A r \in Requests :
        ( /\ Arrived(r)
          /\ RequestOf(r).name = "al_packages"
          /\ Field(RequestOf(r).args, "action") = Some("load")
          /\ TruthyStr(Field(RequestOf(r).args, "path"))
          /\ Field(RequestOf(r).args, "forceReload") = Some(TRUE)
          /\ call[r] # None )
        => /\ "forceReload" \in DOMAIN call[r][1].params
           /\ call[r][1].params.forceReload = TRUE

LoadInvoked ==
    \E r \in Requests :
        call[r] # None /\ call[r][1].op \in {"autoDiscoverPackages", "loadPackages"}

\* C11: start() loads nothing, and once the initialization that the first tool
\* call triggers has completed, package discovery or loading has been invoked.
C11_PackagesLoadedOnInit ==
    /\ (\A r \in Requests : ~Arrived(r)) => ~LoadInvoked
    /\ isInitialized => LoadInvoked

----------------------------------------------------------------------------
(* Properties of the symbol parser *)

\* the 'end' handler has run: the text was delivered and normalize was applied
\* to the document it denotes
Normalized ==
    /\ input # None /\ input[1].text # None
    /\ \/ streamResult.status = "resolved"
       \/ streamResult.status = "rejected" /\ streamResult.error[1].message = "JSON parsing error"

Document == input[1].text[1]

\* the output of normalize
Output == streamResult.objects

\* the positions of the namespace nodes below a Namespaces value
RECURSIVE NamespacePaths(_, _)
NamespacePaths(namespaces, path) ==
    IF ~IsArray(namespaces) THEN {}
    ELSE UNION { { path \o <<i>> }
                 \cup (IF Nullish(namespaces.items[i]) THEN {}
                       ELSE NamespacePaths(Get(namespaces.items[i], "Namespaces"), path \o <<i>>)) :
                 i \in 1..Len(namespaces.items) }

\* the positions of the levels of a document: the root and every namespace node
LevelPaths(doc) == { << >> } \cup NamespacePaths(GetOpt(doc, "Namespaces"), << >>)

\* the level at a position
RECURSIVE LevelAt(_, _)
LevelAt(level, path) ==
    IF path = << >> THEN level
    ELSE LevelAt(Get(level, "Namespaces").items[Head(path)], Tail(path))

\* the positions of the raw entries of a document: every element of a list
\* under one of the 11 collection keys of a level
EntryPositions(doc) ==
    UNION { UNION { { [path |-> path, key |-> ObjectTypeKeys[n], index |-> i] :
                        i \in 1..(IF ~Nullish(LevelAt(doc, path))
                                     /\ IsArray(Get(LevelAt(doc, path), ObjectTypeKeys[n]))
                                  THEN Len(Get(LevelAt(doc, path), ObjectTypeKeys[n]).items)
                                  ELSE 0) } :
                    n \in 1..Len(ObjectTypeKeys) } :
            path \in LevelPaths(doc) }

\* the raw entry at a position
EntryAt(doc, at) == Get(LevelAt(doc, at.path), at.key).items[at.index]

\* the positions the objects of the output were made from
Extracted == { Output[i].Origin : i \in 1..Len(Output) }

\* the root is an object and no namespace node is null
WellFormed(doc) ==
    /\ doc.k = "obj"
    /\ \A path \in LevelPaths(doc) : ~Nullish(LevelAt(doc, path))

\* extraction of the entry at a position throws
Throwing(doc, at) == ParseALObjectThrows(EntryAt(doc, at), TypeMap[at.key])

\* the entry at a position has an id and a non-empty name, and extracts without throwing
Sound(doc, at) ==
    /\ ~Throwing(doc, at)
    /\ Truthy(Get(EntryAt(doc, at), "Id"))
    /\ Truthy(Get(EntryAt(doc, at), "Name"))

\* C12: when the extraction of an entry throws, normalize does not fail, no
\* object is made from that entry, every entry of the document that has an id
\* and a name and extracts without throwing is output, and the objects of one
\* collection keep the order of their entries (for a document whose root is an
\* object and whose namespace nodes are not null)
C12_FailureIsolated ==
    (Normalized /\ WellFormed(Document)
     /\ \E at \in EntryPositions(Document) : Throwing(Document, at))
    => /\ streamResult.status = "resolved"
       /\ \A at \in EntryPositions(Document) :
             /\ Throwing(Document, at) => at \notin Extracted
             /\ Sound(Document, at) => at \in Extracted
       /\ \A i, j \in 1..Len(Output) :
             (i < j /\ Output[i].Origin.path = Output[j].Origin.path
                    /\ Output[i].Origin.key = Output[j].Origin.key)
             => Output[i].Origin.index < Output[j].Origin.index

\* C12 witness: an entry that throws stands before a sound entry of the same
\* collection, and the sound one is in the output
C12_Witness ==
    /\ Normalized /\ WellFormed(Document)
    /\ \E a, b \in EntryPositions(Document) :
          /\ Throwing(Document, a) /\ Sound(Document, b)
          /\ a.path = b.path /\ a.key = b.key /\ a.index < b.index
          /\ b \in Extracted

\* C13: an entry with a non-empty name whose id is 0 or missing, and whose
\* extraction does not throw, is made into an object
C13_IdOptional ==
    (Normalized /\ WellFormed(Document))
    => \A at \in EntryPositions(Document) :
          (/\ ~Throwing(Document, at)
           /\ Truthy(Get(EntryAt(Document, at), "Name"))
           /\ Get(EntryAt(Document, at), "Id") \in { JUndef, JNum(0) })
          => at \in Extracted

\* C14: no object of the output is made from an entry that has neither Id nor Name
C14_EmptyEntryDiscarded ==
    Normalized
    => \A i \in 1..Len(Output) :
          ~ /\ Get(EntryAt(Document, Output[i].Origin), "Id") = JUndef
            /\ Get(EntryAt(Document, Output[i].Origin), "Name") = JUndef

\* C14 witness: normalize succeeded on a document with an entry that has
\* neither Id nor Name next to an entry that is output
C14_Witness ==
    /\ Normalized /\ streamResult.status = "resolved" /\ WellFormed(Document)
    /\ Extracted # {}
    /\ \E at \in EntryPositions(Document) :
          /\ ~Nullish(EntryAt(Document, at))
          /\ Get(EntryAt(Document, at), "Id") = JUndef
          /\ Get(EntryAt(Document, at), "Name") = JUndef

\* the closed set of object types
ObjectTypes ==
    { Spelling[t] : t \in { "Table", "Page", "Codeunit", "Report", "Query", "XmlPort",
                            "Enum", "Interface", "PermissionSet", "ControlAddIn" } }

\* C15: every object of the output has a non-empty Name, a Type of the closed
\* set and the PackageName that normalize was given
C15_ObjectInvariant ==
    Normalized
    => \A i \in 1..Len(Output) :
          /\ Output[i].Name.k = "str" /\ Output[i].Name.s # ""
          /\ Output[i].Type \in ObjectTypes
          /\ Output[i].PackageName = input[1].packageName

\* C15 witness: an output of objects of several types under the second package name
C15_Witness ==
    /\ Normalized
    /\ input[1].packageName = "My App"
    /\ \E i, j \in 1..Len(Output) : Output[i].Type # Output[j].Type

\* C16: the output has exactly one object for every entry, at the root and at
\* every namespace node, that has an id and a name and extracts without
\* throwing, and no object that is not made from an entry
C16_ShapesMerged ==
    (Normalized /\ streamResult.status = "resolved")
    => /\ \A at \in EntryPositions(Document) : Sound(Document, at) => at \in Extracted
       /\ Extracted \subseteq EntryPositions(Document)
       /\ \A i, j \in 1..Len(Output) : Output[i].Origin = Output[j].Origin => i = j

\* C16 witness: the output has an object from the root and an object from a
\* namespace nested in a namespace
C16_Witness ==
    /\ Normalized
    /\ \E i, j \in 1..Len(Output) :
          Output[i].Origin.path = << >> /\ Len(Output[j].Origin.path) >= 2

\* C17: for each of the 11 keys, alone or at the end of a dotted key, the type
\* processObjectsAtLevel derives is the entry of the fixed table and the value
\* of getObjectTypeFromKey, Enums and EnumTypes both give Enum, and every
\* object of the output has the type the table gives for its collection
C17_TypeMapping ==
    /\ \A n \in 1..Len(ObjectTypeKeys) :
          /\ SingularType(ObjectTypeKeys[n]) = TypeMap[ObjectTypeKeys[n]]
          /\ SingularType(ObjectTypeKeys[n]) = GetObjectTypeFromKey(<< ObjectTypeKeys[n] >>)
          /\ SingularType(ObjectTypeKeys[n]) = GetObjectTypeFromKey(<< "Namespaces", ObjectTypeKeys[n] >>)
    /\ SingularType("Enums") = Spelling["Enum"] /\ SingularType("EnumTypes") = Spelling["Enum"]
    /\ Normalized => \A i \in 1..Len(Output) : Output[i].Type = TypeMap[Output[i].Origin.key]

\* C17 witness: the output has an object from each of the 11 collections
C17_Witness ==
    /\ Normalized
    /\ \A n \in 1..Len(ObjectTypeKeys) :
          \E i \in 1..Len(Output) : Output[i].Origin.key = ObjectTypeKeys[n]

\* the members of an object that are among the given ones
Members(object, names) == [f \in DOMAIN object \cap names |-> object[f]]

\* the entry carries the member
Has(data, f) == Get(data, f) # JUndef

\* C18: when an entry carries both historical variants of a member collection,
\* the members of its object are those of the first variant alone: Methods for
\* a codeunit, Dataset for a report, Elements for a query, FieldNames for a key
C18_FirstVariantWins ==
    Normalized
    => \A i \in 1..Len(Output) :
          LET data == EntryAt(Document, Output[i].Origin)
              key == Output[i].Origin.key
          IN  /\ (key = "Codeunits" /\ Has(data, "Methods") /\ Has(data, "Procedures"))
                 => Output[i].Procedures = Map(Get(data, "Methods"), ParseProcedure)
              /\ (key = "Reports" /\ Has(data, "Dataset") /\ Has(data, "DataItems"))
                 => Output[i].Dataset = ParseDataItems(Get(data, "Dataset"))
              /\ (key = "Queries" /\ Has(data, "Elements")
                    /\ (Has(data, "DataItems") \/ Has(data, "Columns")))
                 => Members(Output[i], { "DataItems", "Columns" }) = ParseQueryElements(data)
              /\ (key = "Tables" /\ Has(data, "Keys"))
                 => \A n \in 1..Len(Get(data, "Keys").items) :
                       LET keyData == Get(data, "Keys").items[n]
                       IN  (Has(keyData, "FieldNames") /\ Has(keyData, "Fields"))
                           => Output[i].Keys[n].Fields = Get(keyData, "FieldNames")

\* the text is not JSON, or its root is not an object
Malformed == input[1].text = None \/ input[1].text[1].k # "obj"

\* C19: parseSymbolPackage on a malformed document rejects with an error that
\* names the package and returns no objects
C19_MalformedRejected ==
    (ppc = "done" /\ Malformed)
    => /\ packageResult.status = "rejected"
       /\ packageResult.objects = << >>
       /\ packageResult.error[1].path = input[1].symbolPackagePath

\* the children of a raw node
Children(node, f) == IF Has(node, f) THEN Get(node, f) ELSE JList(<< >>)

\* every node of the raw forest is an object whose children, if any, are a list
RECURSIVE IsForest(_, _)
IsForest(raw, f) ==
    /\ IsArray(raw)
    /\ \A n \in 1..Len(raw.items) :
          raw.items[n].k = "obj" /\ IsForest(Children(raw.items[n], f), f)

\* a parsed node has the property list its raw node gives it: empty when the
\* raw Properties is missing or not a list
SameProperties(node, parsed) ==
    Len(parsed.Properties) = (IF IsArray(Get(node, "Properties"))
                              THEN Len(Get(node, "Properties").items) ELSE 0)

\* the parsed controls have the nesting, the number and the order of the raw ones
RECURSIVE SameControls(_, _)
SameControls(raw, parsed) ==
    /\ Len(parsed) = Len(raw.items)
    /\ \A n \in 1..Len(parsed) :
          /\ parsed[n].Name = Or(Get(raw.items[n], "Name"), JStr(""))
          /\ SameProperties(raw.items[n], parsed[n])
          /\ SameControls(Children(raw.items[n], "Controls"), parsed[n].Controls)

\* the parsed data items have the nesting, the number and the order of the raw ones
RECURSIVE SameDataItems(_, _)
SameDataItems(raw, parsed) ==
    /\ Len(parsed) = Len(raw.items)
    /\ \A n \in 1..Len(parsed) :
          /\ parsed[n].Name = Or(Get(raw.items[n], "Name"), JStr(""))
          /\ SameProperties(raw.items[n], parsed[n])
          /\ SameDataItems(Children(raw.items[n], "DataItems"),
                           IF parsed[n].DataItems = None THEN << >> ELSE parsed[n].DataItems[1])

\* C20: a page with a control tree and a report with a data-item tree are made
\* into an object whose tree has the same nesting and the same children in the
\* same order, a node without a property list, or with one that is not a
\* list, getting the empty list
C20_TreesKeepShape ==
    Normalized
    => \A at \in EntryPositions(Document) :
          LET data == EntryAt(Document, at)
          IN  (~Nullish(data) /\ Truthy(Get(data, "Id")) /\ Truthy(Get(data, "Name")))
              => /\ (at.key = "Pages" /\ IsForest(Get(data, "Controls"), "Controls"))
                    => \E i \in 1..Len(Output) :
                          /\ Output[i].Origin = at
                          /\ SameControls(Get(data, "Controls"), Output[i].Controls)
                 /\ (at.key = "Reports" /\ IsForest(Get(data, "Dataset"), "DataItems"))
                    => \E i \in 1..Len(Output) :
                          /\ Output[i].Origin = at
                          /\ SameDataItems(Get(data, "Dataset"), Output[i].Dataset)

\* C20 witness: a page whose first control has two children, the first of them
\* with a Properties that is not a list, is in the output with both children
C20_Witness ==
    /\ Normalized
    /\ \E i \in 1..Len(Output) :
          /\ Output[i].Origin.key = "Pages"
          /\ "Controls" \in DOMAIN Output[i]
          /\ Len(Output[i].Controls) = 1
          /\ Len(Output[i].Controls[1].Controls) = 2
          /\ LET first == Get(Get(EntryAt(Document, Output[i].Origin), "Controls").items[1],
                              "Controls").items[1]
             IN  Has(first, "Properties") /\ ~IsArray(Get(first, "Properties"))

\* a parsed property list has the length, the order and the (name, value)
\* pairs of the raw list
PropertiesKept(raw, parsed) ==
    IsArray(raw)
    => /\ Len(parsed) = Len(raw.items)
       /\ \A n \in 1..Len(parsed) :
             /\ parsed[n].Value = Get(raw.items[n], "Value")
             /\ Has(raw.items[n], "Name") => parsed[n].Name = Get(raw.items[n], "Name")

SourceTableAt(properties) ==
    IF ~IsArray(properties) THEN {}
    ELSE { n \in 1..Len(properties.items) :
             Get(properties.items[n], "Name") = JStr("SourceTable") }

\* C22: the SourceTable of a page is the value of the first raw property named
\* exactly SourceTable, and the page has no SourceTable when there is none
C22_PageSourceTable ==
    Normalized
    => \A i \in 1..Len(Output) :
          Output[i].Origin.key = "Pages"
          => LET properties == Get(EntryAt(Document, Output[i].Origin), "Properties")
                 hits == SourceTableAt(properties)
             IN  IF hits = {} THEN "SourceTable" \notin DOMAIN Output[i]
                 ELSE /\ "SourceTable" \in DOMAIN Output[i]
                      /\ Output[i].SourceTable
                            = Get(properties.items[CHOOSE n \in hits : \A k \in hits : n <= k], "Value")

\* C22 witness: a page with two SourceTable properties of different values
\* has the value of the first
C22_Witness ==
    /\ Normalized
    /\ \E i \in 1..Len(Output) :
          /\ Output[i].Origin.key = "Pages"
          /\ LET properties == Get(EntryAt(Document, Output[i].Origin), "Properties")
             IN  /\ SourceTableAt(properties) = {1, 2}
                 /\ Get(properties.items[1], "Value") # Get(properties.items[2], "Value")
                 /\ Output[i].SourceTable = Get(properties.items[1], "Value")

\* the handler of call r has started and has not ended
InFlight(r) == pc[r] \notin {"new", "done"}

\* C23: at most one tool call is in flight at a time, and no two calls await
\* the same run of performInitialization, which one of them started
C23_RequestsSerialized ==
    \A r, s \in Requests :
        r # s => /\ ~(InFlight(r) /\ InFlight(s))
                 /\ awaiting[r] # 0 => awaiting[r] # awaiting[s]

\* C26: when an operation of the tools facade has been invoked for a call, the
\* run of performInitialization the call awaited has ended and isInitialized
\* is true; and a handler is past ensureInitialized only with isInitialized true
C26_InitializedBeforeDispatch ==
    \A r \in Requests :
        /\ call[r] # None
           => /\ isInitialized
              /\ awaiting[r] # 0 => inits[awaiting[r]].state # "pending"
        /\ pc[r] \in {"initialized", "awaitTool"} => isInitialized

\* C26 witness: an operation was invoked for a call that had waited in
\* ensureInitialized for a run another call started
C26_Witness ==
    \E r, s \in Requests :
        /\ r # s /\ call[r] # None
        /\ awaiting[r] # 0 /\ awaiting[r] = awaiting[s]

\* the collections the objects of a list were made from
Batches(objects) ==
    { [path |-> objects[i].Origin.path, key |-> objects[i].Origin.key] : i \in 1..Len(objects) }

\* C24: normalizing a document proceeds in batches: no single step of the
\* parser produces the objects of more than one collection of the document, so
\* between two collections (and two namespaces) another request can run
C24_YieldableBatches ==
    [][Cardinality(Batches(streamResult'.objects)) > 1
       => streamResult'.objects = streamResult.objects]_vars

\* the text received so far followed by the chunks to come is the content of the file
ArrivalOrder == jsonData \o Flatten(stream) = FileText(input[1])

\* the promise of parseSymbolStream is settled as the whole text demands:
\* resolved only at the end of a stream that delivered a text denoting a
\* document, with all the objects of that document, and rejected without objects
WholeOrNothing ==
    /\ ppc \in {"new", "extracting", "streaming"} => streamResult = Pending /\ packageResult = Pending
    /\ streamResult.status = "resolved"
       => /\ stream = << >>
          /\ input[1].text # None
          /\ streamResult.objects = ProcessSymbolReference(Document, input[1].packageName)
    /\ streamResult.status = "rejected"
       => /\ streamResult.objects = << >>
          /\ streamResult.error[1].message \in {"Stream reading error", "JSON parsing error"}
          /\ streamResult.error[1].message = "JSON parsing error"
             => /\ stream = << >>
                /\ input[1].text = None \/ ProcessSymbolReferenceThrows(Document)
    /\ packageResult.status = "resolved"
       => streamResult.status = "resolved" /\ packageResult.objects = streamResult.objects
    /\ packageResult.status = "rejected" => packageResult.objects = << >>

\* C27: for every sequence of stream events (chunks of data, then end or
\* error) the promises of parseSymbolStream and parseSymbolPackage settle once
\* and never change afterwards; no object exists before the end event; the
\* chunks are concatenated in arrival order; and on a stream error or a JSON
\* error the promise is rejected with no object list
C27_SettlesOnce ==
    /\ [](input # None => ArrivalOrder /\ WholeOrNothing)
    /\ [][/\ streamResult # Pending => streamResult' = streamResult
          /\ packageResult # Pending => packageResult' = packageResult]_vars

\* a stream in the middle of its chunks: some text has arrived, more is to
\* come, and nothing is settled
C27_Witness ==
    /\ ppc = "streaming"
    /\ jsonData # << >>
    /\ stream # << >>
    /\ streamResult = Pending

\* the place of a collection key in the fixed order of processObjectsAtLevel
KeyRank(key) == CHOOSE n \in 1..Len(ObjectTypeKeys) : ObjectTypeKeys[n] = key

\* namespace p is visited before namespace q by a depth-first pre-order walk:
\* p is an ancestor of q, or p is in an earlier branch
VisitedBefore(p, q) ==
    \/ Len(p) < Len(q) /\ SubSeq(q, 1, Len(p)) = p
    \/ \E k \in 1..Len(p) :
          /\ k <= Len(q)
          /\ SubSeq(p, 1, k - 1) = SubSeq(q, 1, k - 1)
          /\ p[k] < q[k]

\* the entry at a comes before the entry at b in the order of the walk
ComesBefore(a, b) ==
    IF a.path # b.path
    THEN a.path # << >> /\ (b.path = << >> \/ VisitedBefore(a.path, b.path))
    ELSE IF a.key # b.key THEN KeyRank(a.key) < KeyRank(b.key)
    ELSE a.index < b.index

\* C28: the output of normalize is in the order of the walk: the objects of the
\* namespaces first, in depth-first pre-order, the root-level objects last;
\* within one level by collection key in the fixed order of the 11 keys, and
\* within one collection in source order
C28_OutputOrder ==
    (Normalized /\ streamResult.status = "resolved")
    => \A i, j \in 1..Len(Output) : i < j => ComesBefore(Output[i].Origin, Output[j].Origin)

\* an output with an object of a namespace, then one of a namespace nested in
\* it, then one of the root
C28_Witness ==
    /\ Normalized /\ streamResult.status = "resolved"
    /\ \E i, j, k \in 1..Len(Output) :
          /\ i < j /\ j < k
          /\ Len(Output[i].Origin.path) = 1
          /\ Len(Output[j].Origin.path) = 2
          /\ Output[k].Origin.path = << >>

\* the phases in the order the parser goes through them
Phases == <<"opening", "extracting", "parsing", "processing", "completed">>

PhaseRank(phase) == CHOOSE n \in 1..Len(Phases) : Phases[n] = phase

\* the events reported so far are in the order of the phases, none left out
InPhaseOrder ==
    \A j \in 1..Len(progress) :
        /\ \A i \in 1..(j - 1) : PhaseRank(progress[i].phase) <= PhaseRank(progress[j].phase)
        /\ \A n \in 1..(PhaseRank(progress[j].phase) - 1) :
              \E i \in 1..(j - 1) : progress[i].phase = Phases[n]

\* every 'completed' event follows a successful parse and counts its objects
CompletedMeansParsed ==
    \A j \in 1..Len(progress) :
        progress[j].phase = "completed"
        => /\ streamResult.status = "resolved"
           /\ progress[j].processed = Len(streamResult.objects)
           /\ progress[j].total = Some(Len(streamResult.objects))

\* C29: in every run of parseSymbolPackage the progress events come in the
\* order opening, extracting, parsing, processing, completed; 'completed' is
\* reported only when the parse succeeded, with processed = total = the number
\* of objects returned; and once the parse has failed no event is reported
C29_ProgressOrder ==
    /\ [](InPhaseOrder /\ CompletedMeansParsed)
    /\ [][(streamResult.status = "rejected" \/ packageResult.status = "rejected")
          => progress' = progress]_vars

\* a run that went through all phases and returned two objects or more
C29_Witness ==
    /\ ppc = "done"
    /\ packageResult.status = "resolved"
    /\ Len(packageResult.objects) >= 2
    /\ { progress[j].phase : j \in 1..Len(progress) } = { Phases[n] : n \in 1..Len(Phases) }
    /\ progress[Len(progress)].processed = Len(packageResult.objects)

\* the command line asks for help / for the version
AsksHelp == Includes(invocation[1].args, "--help") \/ Includes(invocation[1].args, "-h")

AsksVersion == Includes(invocation[1].args, "--version") \/ Includes(invocation[1].args, "-v")

\* C25: whatever the terminal and the other arguments, a command line with
\* --help or -h prints the help and exits, and one with --version or -v prints
\* the version and exits (either of the two when both are asked for); neither
\* starts the server nor runs the installer
C25_FlagsWin ==
    (invocation # None /\ did # "nothing")
    => /\ AsksHelp \/ AsksVersion => did \in {"help", "version"} /\ ipc = "exited"
       /\ AsksHelp /\ ~AsksVersion => did = "help"
       /\ AsksVersion /\ ~AsksHelp => did = "version"

\* the members of a JSON object other than f are members of the other value, unchanged
OthersKept(before, after, f) ==
    /\ after.k = "obj"
    /\ \A g \in DOMAIN before.fields \ {f} :
          g \in DOMAIN after.fields /\ after.fields[g] = before.fields[g]

\* a file keeps everything but the entry of this server under the member
\* that holds the servers: a text that is not JSON and a value that is no
\* object stay as they are; an object keeps its other members; its servers, if
\* an object, keep the other servers, if no object and not falsy, stay as they are
FrameKept(before, after, servers) ==
    before.exists
    => /\ after.exists
       /\ after.readable = before.readable /\ after.writable = before.writable
       /\ ~before.text.json => after.text = before.text
       /\ before.text.json
          => /\ after.text.json
             /\ IF before.text.value.k # "obj" THEN after.text.value = before.text.value
                ELSE /\ OthersKept(before.text.value, after.text.value, servers)
                     /\ LET old == Get(before.text.value, servers)
                            new == Get(after.text.value, servers)
                        IN  CASE old.k = "obj" -> OthersKept(old, new, ServerName)
                              [] old.k # "obj" /\ Truthy(old) -> new = old
                              [] OTHER -> new = old \/ DOMAIN new.fields = {ServerName}

\* C30: the installer only adds its own entry: settings.json and mcp.json keep
\* every member other than the entry 'al' of their servers; a step that fails
\* to read, parse or update a file leaves the file as it was, and the
\* installation goes on to the next editor and completes; and a second run
\* leaves the files as the first run left them
C30_OnlyOwnEntry ==
    /\ [](invocation # None
          => /\ FrameKept(invocation[1].files.settings, files.settings, ClaudeServers)
             /\ FrameKept(invocation[1].files.mcp, files.mcp, "servers")
             /\ ipc = "completed"
                => /\ log \cap {"Claude Code skipped", "Claude Code failed", "Claude Code configured"} # {}
                   /\ log \cap {"VS Code failed", "VS Code configured"} # {})
    /\ [][/\ "Claude Code failed" \in log' \ log => files' = files
          /\ "VS Code failed" \in log' \ log => files'.settings = files.settings /\ files'.mcp = files.mcp
          /\ runs >= 1 => files' = files]_vars

\* a second run has completed on a settings.json that held another setting,
\* another server and an older entry of this server, and an mcp.json that
\* could not be updated
C30_Witness ==
    /\ ipc = "completed" /\ runs = 2
    /\ log = {"AL CLI tools found", "Claude Code configured", "VS Code failed"}
    /\ invocation[1].files.mcp.exists
    /\ invocation[1].files.settings.exists
    /\ invocation[1].files.settings.text.json
    /\ LET before == invocation[1].files.settings.text.value
       IN  /\ before.k = "obj"
           /\ DOMAIN before.fields = {"editor", ClaudeServers}
           /\ Get(before, ClaudeServers).k = "obj"
           /\ DOMAIN Get(before, ClaudeServers).fields = {ServerName, "github"}
           /\ Get(Get(before, ClaudeServers), ServerName)
              # Get(Get(files.settings.text.value, ClaudeServers), ServerName)

====
